---- MODULE Spec2Model ----
(***************************************************************************)
(* The fiber double buffer (ReactFiber.js) and the per-fiber update queue  *)
(* (ReactUpdateQueue.js) as a state machine over a heap of fibers, queue   *)
(* objects and update records.  References are heap indices, 0 is null.    *)
(***************************************************************************)
EXTENDS Integers, Sequences, FiniteSets, TLC

\* ------------------------------------------------------------- bounds
MaxUpdates == 2             \* update records ever created under Spec
LowExpirationTime == 1      \* the less urgent expiration time of two
HighExpirationTime == 2     \* the more urgent expiration time (larger is more urgent)
MaxAbandoned == 3           \* abandoned passes counted under SpecRetry
MaxCreated == 2             \* fibers created from elements under SpecCreate

\* ---------------------------------------------------------- constants
NoWork == 0
NULL == 0

UpdateState == "UpdateState"
ReplaceState == "ReplaceState"
ForceUpdate == "ForceUpdate"
CaptureUpdate == "CaptureUpdate"

\* effectTag is a bitset; it is kept as the set of the bits that are on.
NoEffect == {}
Callback == "Callback"
ShouldCapture == "ShouldCapture"
DidCapture == "DidCapture"
Placement == "Placement"

ClassComponent == "ClassComponent"
HostRoot == "HostRoot"

ExpirationTimes == {LowExpirationTime, HighExpirationTime}
Letters == <<"A", "B", "C", "D", "E", "F", "G", "H">>

\* TypeOfMode is a bitset; it is kept as the set of the bits that are on.
TypeOfMode ==
    [NoContext |-> {}, ConcurrentMode |-> "ConcurrentMode",
     StrictMode |-> "StrictMode", ProfileMode |-> "ProfileMode"]

\* The work tags of the fibers createFiberFromTypeAndProps makes.
WorkTags ==
    [IndeterminateComponent |-> "IndeterminateComponent", Fragment |-> "Fragment",
     Mode |-> "Mode", Profiler |-> "Profiler", SuspenseComponent |-> "SuspenseComponent",
     ContextProvider |-> "ContextProvider", ContextConsumer |-> "ContextConsumer",
     ForwardRef |-> "ForwardRef", MemoComponent |-> "MemoComponent",
     LazyComponent |-> "LazyComponent"]


\* ---------------------------------------------------------- JS values
\* A state value is null, undefined or an object; an object is a function
\* from its own property names to strings (sequences of letters).
EmptyProps == [k \in {} |-> <<>>]
JSNull == [t |-> "null", o |-> EmptyProps]
JSUndefined == [t |-> "undefined", o |-> EmptyProps]
JSObject(props) == [t |-> "object", o |-> props]
StateOf(str) == JSObject([k \in {"s"} |-> str])

\* Own enumerable properties, as Object.assign reads them from a source.
OwnProps(v) == IF v.t = "object" THEN v.o ELSE EmptyProps

\* Object.assign({}, a, b)
ObjectAssign(a, b) ==
    LET pa == OwnProps(a)
        pb == OwnProps(b)
    IN JSObject([k \in (DOMAIN pa) \cup (DOMAIN pb) |->
                    IF k \in DOMAIN pb THEN pb[k] ELSE pa[k]])

\* Payloads: a plain value (fn = "none"), or an updater function.
\*   "append": (prevState, props) => ({s: prevState.s + letter})
ValuePayload(v) == [fn |-> "none", v |-> v, letter |-> ""]
AppendPayload(l) == [fn |-> "append", v |-> JSNull, letter |-> l]
IsFunction(payload) == payload.fn # "none"

TextOf(v) == IF v.t = "object" /\ "s" \in DOMAIN v.o THEN v.o["s"] ELSE <<>>

\* payload.call(instance, prevState, nextProps)
CallPayload(payload, prevState, nextProps) ==
    IF payload.fn = "append"
    THEN StateOf(Append(TextOf(prevState), payload.letter))
    ELSE payload.v

\* A value given as element type: what typeof says of it, a name that identifies it,
\* whether it is null, whether its prototype has isReactComponent, and its $$typeof.
JSType(typeof, name, isReactComponent, tagged) ==
    [typeof |-> typeof, name |-> name, isNull |-> FALSE,
     isReactComponent |-> isReactComponent, tagged |-> tagged]
ReactSymbol(name) == JSType("symbol", name, FALSE, "undefined")
TaggedObject(tagged) == JSType("object", "object", FALSE, tagged)
TypeUndefined == JSType("undefined", "undefined", FALSE, "undefined")
TypeNull == [JSType("object", "null", FALSE, "undefined") EXCEPT !.isNull = TRUE]

\* shared/ReactSymbols: the symbols that mark elements and element types.
ReactSymbols ==
    [REACT_ELEMENT_TYPE |-> ReactSymbol("react.element"),
     REACT_PORTAL_TYPE |-> ReactSymbol("react.portal"),
     REACT_FRAGMENT_TYPE |-> ReactSymbol("react.fragment"),
     REACT_STRICT_MODE_TYPE |-> ReactSymbol("react.strict_mode"),
     REACT_PROFILER_TYPE |-> ReactSymbol("react.profiler"),
     REACT_PROVIDER_TYPE |-> ReactSymbol("react.provider"),
     REACT_CONTEXT_TYPE |-> ReactSymbol("react.context"),
     REACT_CONCURRENT_MODE_TYPE |-> ReactSymbol("react.concurrent_mode"),
     REACT_FORWARD_REF_TYPE |-> ReactSymbol("react.forward_ref"),
     REACT_SUSPENSE_TYPE |-> ReactSymbol("react.suspense"),
     REACT_MEMO_TYPE |-> ReactSymbol("react.memo"),
     REACT_LAZY_TYPE |-> ReactSymbol("react.lazy")]


\* ------------------------------------------------------------- state
VARIABLES
    fibers,          \* heap of FiberNode records
    queues,          \* heap of UpdateQueue records (a slot no fiber refers to is free)
    updates,         \* heap of Update records, in creation order
    current,         \* per tree position: the committed fiber
    phase,           \* per tree position: "idle", or "render" while a pass is under way
    nextRenderExpirationTime,  \* per tree position: the expiration time of the pass
    hasForceUpdate,  \* module-level flag of ReactUpdateQueue.js
    callCount,       \* per update: how often its callback has been invoked
    created,         \* per update: how it was scheduled, its callback, and for a
                     \* captured update what became of the pass that scheduled it
    passApplied,     \* updates applied by processUpdateQueue in the pass under way
    consumed,        \* updates applied by a pass that was committed
    abandoned,       \* passes abandoned after they had applied update 1
    lastOp,          \* the operation that led to this state
    hung,            \* TRUE once an operation has entered a loop that never ends
    host,            \* the three stack cursors of the host context module, with
                     \* the outcome of its last call
    dom,             \* a DOM element, the caches of isAttributeNameSafe, the
                     \* diagnostics emitted, and the outcome of the last call
    diag             \* the warn-once flags of ReactDOMOption and ReactUpdateQueue,
                     \* currentlyProcessingQueue, and the warnings emitted

vars == <<fibers, queues, updates, current, phase, nextRenderExpirationTime,
          hasForceUpdate, callCount,
          created, passApplied, consumed, abandoned, lastOp, hung, host, dom, diag>>

\* -------------------------------------------------------------- heap
\* The heap a function works on: h.f fibers, h.q queues, h.u updates.
MaxQueues == 4   \* queue objects alive at once (two per tree position)
QueueIds == 1..MaxQueues

Heap == [f |-> fibers, q |-> queues, u |-> updates]

\* fiber.type is null or, for a host component, the name of its element.
NoType == "null"

FiberNode(tag, pendingProps, key, mode) ==
    [tag |-> tag, key |-> key, type |-> NoType, mode |-> mode,
     pendingProps |-> pendingProps, memoizedProps |-> NULL,
     updateQueue |-> NULL, memoizedState |-> JSNull,
     effectTag |-> NoEffect,
     nextEffect |-> NULL, firstEffect |-> NULL, lastEffect |-> NULL,
     expirationTime |-> NoWork, childExpirationTime |-> NoWork,
     child |-> NULL, sibling |-> NULL, index |-> 0, ref |-> JSNull,
     contextDependencies |-> JSNull,
     alternate |-> NULL]

\* createFiber: allocates the node at the end of the fiber heap.
createFiber(h, tag, pendingProps, key, mode) ==
    [h EXCEPT !.f = Append(@, FiberNode(tag, pendingProps, key, mode))]

createUpdateQueue(baseState) ==
    [baseState |-> baseState,
     firstUpdate |-> NULL, lastUpdate |-> NULL,
     firstCapturedUpdate |-> NULL, lastCapturedUpdate |-> NULL,
     firstEffect |-> NULL, lastEffect |-> NULL,
     firstCapturedEffect |-> NULL, lastCapturedEffect |-> NULL]

\* Mutant: the clone takes over the captured list as well.
cloneUpdateQueue_WithCaptured(currentQueue) ==
    [currentQueue EXCEPT !.firstEffect = NULL, !.lastEffect = NULL,
                         !.firstCapturedEffect = NULL, !.lastCapturedEffect = NULL]

cloneUpdateQueue(currentQueue) ==
    [baseState |-> currentQueue.baseState,
     firstUpdate |-> currentQueue.firstUpdate,
     lastUpdate |-> currentQueue.lastUpdate,
     firstCapturedUpdate |-> NULL, lastCapturedUpdate |-> NULL,
     firstEffect |-> NULL, lastEffect |-> NULL,
     firstCapturedEffect |-> NULL, lastCapturedEffect |-> NULL]

createUpdate(expirationTime) ==
    [expirationTime |-> expirationTime,
     tag |-> UpdateState, payload |-> ValuePayload(JSNull), callback |-> "null",
     next |-> NULL, nextEffect |-> NULL]

\* A queue object is live while some fiber refers to it; a new object takes
\* a slot that no fiber refers to.
LiveQueues(fh) == {fh[i].updateQueue : i \in DOMAIN fh} \ {NULL}
FreeQueue == createUpdateQueue(JSNull)
NewQueueId(fh) == CHOOSE id \in QueueIds :
    /\ id \notin LiveQueues(fh)
    /\ \A other \in QueueIds : other < id => other \in LiveQueues(fh)

\* fiber.updateQueue = <a new queue object holding rec>
AssignNewQueue(h, fiber, rec) ==
    LET id == NewQueueId(h.f)
    IN [h EXCEPT !.q[id] = rec, !.f[fiber].updateQueue = id]

\* Queue objects that became unreachable are reclaimed.
Collect(h) ==
    [h EXCEPT !.q = [id \in QueueIds |->
                        IF id \in LiveQueues(h.f) THEN h.q[id] ELSE FreeQueue]]

\* Mutant: lastUpdate of a queue that is not empty stays where it was.
appendUpdateToQueue_KeepsLast(h, queue, update) ==
    IF h.q[queue].lastUpdate = NULL
    THEN [h EXCEPT !.q[queue].firstUpdate = update,
                   !.q[queue].lastUpdate = update]
    ELSE [h EXCEPT !.u[h.q[queue].lastUpdate].next = update]

appendUpdateToQueue(h, queue, update) ==
    IF h.q[queue].lastUpdate = NULL
    THEN [h EXCEPT !.q[queue].firstUpdate = update,
                   !.q[queue].lastUpdate = update]
    ELSE [h EXCEPT !.u[h.q[queue].lastUpdate].next = update,
                   !.q[queue].lastUpdate = update]

\* enqueueUpdate, lines 272-309: the queues of the fiber and of its alternate,
\* created or cloned where missing.
EnqueueQueues(h, fiber) ==
    LET alternate == h.f[fiber].alternate
        queue1 == h.f[fiber].updateQueue
    IN IF alternate = NULL
       THEN IF queue1 = NULL
            THEN AssignNewQueue(h, fiber, createUpdateQueue(h.f[fiber].memoizedState))
            ELSE h
       ELSE LET queue2 == h.f[alternate].updateQueue
            IN IF queue1 = NULL
               THEN IF queue2 = NULL
                    THEN AssignNewQueue(
                           AssignNewQueue(h, fiber,
                               createUpdateQueue(h.f[fiber].memoizedState)),
                           alternate,
                           createUpdateQueue(h.f[alternate].memoizedState))
                    ELSE AssignNewQueue(h, fiber, cloneUpdateQueue(h.q[queue2]))
               ELSE IF queue2 = NULL
                    THEN AssignNewQueue(h, alternate, cloneUpdateQueue(h.q[queue1]))
                    ELSE h

\* Mutant: the update is linked into the first list only, also when a list is empty.
AppendToBothQueues_OnlyFirst(h, queue1, queue2, update) ==
    [appendUpdateToQueue(h, queue1, update) EXCEPT !.q[queue2].lastUpdate = update]

\* enqueueUpdate, lines 320-334: two distinct queues.
AppendToBothQueues(h, queue1, queue2, update) ==
    IF h.q[queue1].lastUpdate = NULL \/ h.q[queue2].lastUpdate = NULL
    THEN appendUpdateToQueue(appendUpdateToQueue(h, queue1, update), queue2, update)
    ELSE [appendUpdateToQueue(h, queue1, update) EXCEPT !.q[queue2].lastUpdate = update]

enqueueUpdate(h, fiber, update) ==
    LET h1 == EnqueueQueues(h, fiber)
        alternate == h1.f[fiber].alternate
        queue1 == h1.f[fiber].updateQueue
        queue2 == IF alternate = NULL THEN NULL ELSE h1.f[alternate].updateQueue
    IN IF queue2 = NULL \/ queue1 = queue2
       THEN appendUpdateToQueue(h1, queue1, update)
       ELSE AppendToBothQueues(h1, queue1, queue2, update)

\* Mutant: the queue is used as it is, shared or not.
ensureWorkInProgressQueueIsAClone_Never(h, workInProgress, queue) == h

ensureWorkInProgressQueueIsAClone(h, workInProgress, queue) ==
    LET cur == h.f[workInProgress].alternate
    IN IF cur # NULL /\ queue = h.f[cur].updateQueue
       THEN AssignNewQueue(h, workInProgress, cloneUpdateQueue(h.q[queue]))
       ELSE h

enqueueCapturedUpdate(h, workInProgress, update) ==
    LET h1 == IF h.f[workInProgress].updateQueue = NULL
              THEN AssignNewQueue(h, workInProgress,
                       createUpdateQueue(h.f[workInProgress].memoizedState))
              ELSE ensureWorkInProgressQueueIsAClone(
                       h, workInProgress, h.f[workInProgress].updateQueue)
        workInProgressQueue == h1.f[workInProgress].updateQueue
    IN IF h1.q[workInProgressQueue].lastCapturedUpdate = NULL
       THEN [h1 EXCEPT !.q[workInProgressQueue].firstCapturedUpdate = update,
                       !.q[workInProgressQueue].lastCapturedUpdate = update]
       ELSE [h1 EXCEPT !.u[h1.q[workInProgressQueue].lastCapturedUpdate].next = update,
                       !.q[workInProgressQueue].lastCapturedUpdate = update]

\* Mutant: the new alternate is not linked back from current.
createWorkInProgress_OneWayLink(h, cur, pendingProps, expirationTime) ==
    LET c == h.f[cur]
    IN IF c.alternate # NULL THEN h
       ELSE LET a == createFiber(h, c.tag, pendingProps, c.key, c.mode)
            IN [a EXCEPT !.f[Len(a.f)].alternate = cur]

\* Mutant: a reused alternate keeps its effect tag and its effect list.
createWorkInProgress_KeepEffects(h, cur, pendingProps, expirationTime) ==
    LET c == h.f[cur]
    IN IF c.alternate = NULL
       THEN LET a == createFiber(h, c.tag, pendingProps, c.key, c.mode)
                n == Len(a.f)
            IN [a EXCEPT !.f[n].alternate = cur, !.f[cur].alternate = n]
       ELSE [h EXCEPT !.f[c.alternate].pendingProps = pendingProps]

\* Mutant: the pending props are written to the current fiber as well.
createWorkInProgress_WritesCurrent(h, cur, pendingProps, expirationTime) ==
    LET c == h.f[cur]
        h1 == IF c.alternate = NULL
              THEN LET a == createFiber(h, c.tag, pendingProps, c.key, c.mode)
                       n == Len(a.f)
                   IN [a EXCEPT !.f[n].alternate = cur, !.f[cur].alternate = n]
              ELSE [h EXCEPT !.f[c.alternate].pendingProps = pendingProps,
                             !.f[c.alternate].effectTag = NoEffect,
                             !.f[c.alternate].nextEffect = NULL,
                             !.f[c.alternate].firstEffect = NULL,
                             !.f[c.alternate].lastEffect = NULL]
        workInProgress == h1.f[cur].alternate
    IN [h1 EXCEPT !.f[cur].pendingProps = pendingProps,
                  !.f[workInProgress].childExpirationTime = c.childExpirationTime,
                  !.f[workInProgress].expirationTime = c.expirationTime,
                  !.f[workInProgress].memoizedProps = c.memoizedProps,
                  !.f[workInProgress].memoizedState = c.memoizedState,
                  !.f[workInProgress].updateQueue = c.updateQueue]

\* Mutant: a node is allocated by every call.
createWorkInProgress_AlwaysAllocates(h, cur, pendingProps, expirationTime) ==
    LET c == h.f[cur]
        a == createFiber(h, c.tag, pendingProps, c.key, c.mode)
        n == Len(a.f)
    IN [a EXCEPT !.f[n].alternate = cur, !.f[cur].alternate = n,
                 !.f[n].childExpirationTime = c.childExpirationTime,
                 !.f[n].expirationTime = c.expirationTime,
                 !.f[n].memoizedProps = c.memoizedProps,
                 !.f[n].memoizedState = c.memoizedState,
                 !.f[n].updateQueue = c.updateQueue]

\* Mutant: the new work-in-progress is created without the mode of the current fiber.
createWorkInProgress_NoMode(h, cur, pendingProps, expirationTime) ==
    LET c == h.f[cur]
        h1 == IF c.alternate = NULL
              THEN LET a == createFiber(h, c.tag, pendingProps, c.key, TypeOfMode.NoContext)
                       n == Len(a.f)
                   IN [a EXCEPT !.f[n].type = c.type,
                                !.f[n].alternate = cur, !.f[cur].alternate = n]
              ELSE [h EXCEPT !.f[c.alternate].pendingProps = pendingProps,
                             !.f[c.alternate].effectTag = NoEffect,
                             !.f[c.alternate].nextEffect = NULL,
                             !.f[c.alternate].firstEffect = NULL,
                             !.f[c.alternate].lastEffect = NULL]
        workInProgress == h1.f[cur].alternate
    IN [h1 EXCEPT !.f[workInProgress].childExpirationTime = c.childExpirationTime,
                  !.f[workInProgress].expirationTime = c.expirationTime,
                  !.f[workInProgress].memoizedProps = c.memoizedProps,
                  !.f[workInProgress].memoizedState = c.memoizedState,
                  !.f[workInProgress].updateQueue = c.updateQueue]

\* Mutant: the expiration time of the work-in-progress is the one of the call, and
\* a reused work-in-progress keeps its sibling, index and ref.
createWorkInProgress_ArgumentTime(h, cur, pendingProps, expirationTime) ==
    LET c == h.f[cur]
        h1 == IF c.alternate = NULL
              THEN LET a == createFiber(h, c.tag, pendingProps, c.key, c.mode)
                       n == Len(a.f)
                   IN [a EXCEPT !.f[n].type = c.type,
                                !.f[n].alternate = cur, !.f[cur].alternate = n]
              ELSE [h EXCEPT !.f[c.alternate].pendingProps = pendingProps,
                             !.f[c.alternate].effectTag = NoEffect,
                             !.f[c.alternate].nextEffect = NULL,
                             !.f[c.alternate].firstEffect = NULL,
                             !.f[c.alternate].lastEffect = NULL]
        workInProgress == h1.f[cur].alternate
    IN [h1 EXCEPT !.f[workInProgress].childExpirationTime = c.childExpirationTime,
                  !.f[workInProgress].expirationTime = expirationTime,
                  !.f[workInProgress].child = c.child,
                  !.f[workInProgress].memoizedProps = c.memoizedProps,
                  !.f[workInProgress].memoizedState = c.memoizedState,
                  !.f[workInProgress].updateQueue = c.updateQueue,
                  !.f[workInProgress].contextDependencies = c.contextDependencies]

\* createWorkInProgress(current, pendingProps, expirationTime); the node it
\* returns is h'.f[cur].alternate.
createWorkInProgress(h, cur, pendingProps, expirationTime) ==
    LET c == h.f[cur]
        h1 == IF c.alternate = NULL
              THEN LET a == createFiber(h, c.tag, pendingProps, c.key, c.mode)
                       n == Len(a.f)
                   IN [a EXCEPT !.f[n].type = c.type,
                                !.f[n].alternate = cur, !.f[cur].alternate = n]
              ELSE [h EXCEPT !.f[c.alternate].pendingProps = pendingProps,
                             !.f[c.alternate].effectTag = NoEffect,
                             !.f[c.alternate].nextEffect = NULL,
                             !.f[c.alternate].firstEffect = NULL,
                             !.f[c.alternate].lastEffect = NULL]
        workInProgress == h1.f[cur].alternate
    IN [h1 EXCEPT !.f[workInProgress].childExpirationTime = c.childExpirationTime,
                  !.f[workInProgress].expirationTime = c.expirationTime,
                  !.f[workInProgress].child = c.child,
                  !.f[workInProgress].memoizedProps = c.memoizedProps,
                  !.f[workInProgress].memoizedState = c.memoizedState,
                  !.f[workInProgress].updateQueue = c.updateQueue,
                  !.f[workInProgress].contextDependencies = c.contextDependencies,
                  !.f[workInProgress].sibling = c.sibling,
                  !.f[workInProgress].index = c.index,
                  !.f[workInProgress].ref = c.ref]

\* ------------------------------------------------- processUpdateQueue
\* Mutant: a call starts with the flag the call before it left.
PassLocals_KeepsFlag(h, baseState) ==
    [h |-> h,
     resultState |-> baseState,
     newBaseState |-> baseState,
     newFirstUpdate |-> NULL,
     newFirstCapturedUpdate |-> NULL,
     newExpirationTime |-> NoWork,
     hasForceUpdate |-> hasForceUpdate,
     applied |-> <<>>,
     diverged |-> FALSE]

\* The locals of one processUpdateQueue call, with the heap it mutates.
PassLocals(h, baseState) ==
    [h |-> h,
     resultState |-> baseState,
     newBaseState |-> baseState,
     newFirstUpdate |-> NULL,
     newFirstCapturedUpdate |-> NULL,
     newExpirationTime |-> NoWork,
     hasForceUpdate |-> FALSE,
     applied |-> <<>>,
     diverged |-> FALSE]

\* Mutant: the partial state replaces the previous state.
MergePartialState_Replaces(update, prevState, nextProps) ==
    LET payload == update.payload
        partialState == IF IsFunction(payload)
                        THEN CallPayload(payload, prevState, nextProps)
                        ELSE payload.v
    IN IF partialState.t = "null" \/ partialState.t = "undefined"
       THEN prevState
       ELSE JSObject(OwnProps(partialState))

\* getStateFromUpdate: st.resultState becomes the returned state; the effectTag of
\* the work-in-progress and the module's hasForceUpdate are set as the code sets them.
MergePartialState(update, prevState, nextProps) ==
    LET payload == update.payload
        partialState == IF IsFunction(payload)
                        THEN CallPayload(payload, prevState, nextProps)
                        ELSE payload.v
    IN IF partialState.t = "null" \/ partialState.t = "undefined"
       THEN prevState
       ELSE ObjectAssign(prevState, partialState)

\* Mutant: an applied capture update leaves ShouldCapture set.
getStateFromUpdate_KeepsShouldCapture(st, workInProgress, queue, update, prevState, nextProps, instance) ==
    LET u == st.h.u[update]
    IN CASE u.tag = ReplaceState ->
              [st EXCEPT !.resultState =
                  IF IsFunction(u.payload)
                  THEN CallPayload(u.payload, prevState, nextProps)
                  ELSE u.payload.v]
         [] u.tag = CaptureUpdate ->
              [st EXCEPT !.h.f[workInProgress].effectTag = @ \cup {DidCapture},
                         !.resultState = MergePartialState(u, prevState, nextProps)]
         [] u.tag = UpdateState ->
              [st EXCEPT !.resultState = MergePartialState(u, prevState, nextProps)]
         [] u.tag = ForceUpdate ->
              [st EXCEPT !.hasForceUpdate = TRUE, !.resultState = prevState]
         [] OTHER -> [st EXCEPT !.resultState = prevState]

getStateFromUpdate(st, workInProgress, queue, update, prevState, nextProps, instance) ==
    LET u == st.h.u[update]
    IN CASE u.tag = ReplaceState ->
              [st EXCEPT !.resultState =
                  IF IsFunction(u.payload)
                  THEN CallPayload(u.payload, prevState, nextProps)
                  ELSE u.payload.v]
         [] u.tag = CaptureUpdate ->
              [st EXCEPT !.h.f[workInProgress].effectTag =
                             (@ \ {ShouldCapture}) \cup {DidCapture},
                         !.resultState = MergePartialState(u, prevState, nextProps)]
         [] u.tag = UpdateState ->
              [st EXCEPT !.resultState = MergePartialState(u, prevState, nextProps)]
         [] u.tag = ForceUpdate ->
              [st EXCEPT !.hasForceUpdate = TRUE, !.resultState = prevState]
         [] OTHER -> [st EXCEPT !.resultState = prevState]

\* Mutant: the update goes on the effect list and the fiber is not flagged.
PushEffect_NoFlag(st, workInProgress, queue, update, isCaptured) ==
    IF st.h.u[update].callback = "null"
    THEN st
    ELSE LET st1 == [st EXCEPT !.h.u[update].nextEffect = NULL]
             last == IF isCaptured THEN st1.h.q[queue].lastCapturedEffect
                                   ELSE st1.h.q[queue].lastEffect
             st2 == IF last = NULL THEN st1
                    ELSE [st1 EXCEPT !.h.u[last].nextEffect = update]
         IN IF isCaptured
            THEN [st2 EXCEPT !.h.q[queue].firstCapturedEffect =
                                 IF last = NULL THEN update ELSE @,
                             !.h.q[queue].lastCapturedEffect = update]
            ELSE [st2 EXCEPT !.h.q[queue].firstEffect =
                                 IF last = NULL THEN update ELSE @,
                             !.h.q[queue].lastEffect = update]

\* Lines 571-583 and 629-641: an applied update that carries a callback goes to the
\* end of the (normal or captured) effect list.
PushEffect(st, workInProgress, queue, update, isCaptured) ==
    IF st.h.u[update].callback = "null"
    THEN st
    ELSE LET st1 == [st EXCEPT !.h.f[workInProgress].effectTag = @ \cup {Callback},
                               !.h.u[update].nextEffect = NULL]
             last == IF isCaptured THEN st1.h.q[queue].lastCapturedEffect
                                   ELSE st1.h.q[queue].lastEffect
             st2 == IF last = NULL THEN st1
                    ELSE [st1 EXCEPT !.h.u[last].nextEffect = update]
         IN IF isCaptured
            THEN [st2 EXCEPT !.h.q[queue].firstCapturedEffect =
                                 IF last = NULL THEN update ELSE @,
                             !.h.q[queue].lastCapturedEffect = update]
            ELSE [st2 EXCEPT !.h.q[queue].firstEffect =
                                 IF last = NULL THEN update ELSE @,
                             !.h.q[queue].lastEffect = update]

\* Mutant: a skipped captured update never moves the base state.
SkipUpdate_CapturedKeepsBase(st, update, isCaptured) ==
    LET updateExpirationTime == st.h.u[update].expirationTime
        st1 == IF isCaptured
               THEN IF st.newFirstCapturedUpdate = NULL
                    THEN [st EXCEPT !.newFirstCapturedUpdate = update]
                    ELSE st
               ELSE IF st.newFirstUpdate = NULL
                    THEN [st EXCEPT !.newFirstUpdate = update,
                                    !.newBaseState = st.resultState]
                    ELSE st
    IN IF st1.newExpirationTime < updateExpirationTime
       THEN [st1 EXCEPT !.newExpirationTime = updateExpirationTime]
       ELSE st1

\* Mutant: the remaining expiration time is that of the last skipped update.
SkipUpdate_LastExpiration(st, update, isCaptured) ==
    LET updateExpirationTime == st.h.u[update].expirationTime
        st1 == IF isCaptured
               THEN IF st.newFirstCapturedUpdate = NULL
                    THEN [st EXCEPT !.newFirstCapturedUpdate = update,
                                    !.newBaseState = IF st.newFirstUpdate = NULL
                                                     THEN st.resultState ELSE @]
                    ELSE st
               ELSE IF st.newFirstUpdate = NULL
                    THEN [st EXCEPT !.newFirstUpdate = update,
                                    !.newBaseState = st.resultState]
                    ELSE st
    IN [st1 EXCEPT !.newExpirationTime = updateExpirationTime]

\* Mutant: a skipped update leaves the base state of the queue as it was.
SkipUpdate_KeepBase(st, update, isCaptured) ==
    LET updateExpirationTime == st.h.u[update].expirationTime
        st1 == IF isCaptured
               THEN IF st.newFirstCapturedUpdate = NULL
                    THEN [st EXCEPT !.newFirstCapturedUpdate = update]
                    ELSE st
               ELSE IF st.newFirstUpdate = NULL
                    THEN [st EXCEPT !.newFirstUpdate = update]
                    ELSE st
    IN IF st1.newExpirationTime < updateExpirationTime
       THEN [st1 EXCEPT !.newExpirationTime = updateExpirationTime]
       ELSE st1

\* Mutant: every skipped update, not only the first, becomes the head of the new list.
SkipUpdate_LastSkipped(st, update, isCaptured) ==
    LET updateExpirationTime == st.h.u[update].expirationTime
        st1 == IF isCaptured
               THEN [st EXCEPT !.newFirstCapturedUpdate = update,
                               !.newBaseState = IF st.newFirstUpdate = NULL
                                                THEN st.resultState ELSE @]
               ELSE [st EXCEPT !.newFirstUpdate = update,
                               !.newBaseState = st.resultState]
    IN IF st1.newExpirationTime < updateExpirationTime
       THEN [st1 EXCEPT !.newExpirationTime = updateExpirationTime]
       ELSE st1

\* The body of the while loops of lines 538-588 (normal) and 594-644 (captured).
SkipUpdate(st, update, isCaptured) ==
    LET updateExpirationTime == st.h.u[update].expirationTime
        st1 == IF isCaptured
               THEN IF st.newFirstCapturedUpdate = NULL
                    THEN [st EXCEPT !.newFirstCapturedUpdate = update,
                                    !.newBaseState = IF st.newFirstUpdate = NULL
                                                     THEN st.resultState ELSE @]
                    ELSE st
               ELSE IF st.newFirstUpdate = NULL
                    THEN [st EXCEPT !.newFirstUpdate = update,
                                    !.newBaseState = st.resultState]
                    ELSE st
    IN IF st1.newExpirationTime < updateExpirationTime
       THEN [st1 EXCEPT !.newExpirationTime = updateExpirationTime]
       ELSE st1

ApplyUpdate(st, workInProgress, queue, update, props, instance, isCaptured) ==
    LET st1 == getStateFromUpdate(st, workInProgress, queue, update,
                                  st.resultState, props, instance)
        st2 == [st1 EXCEPT !.applied = Append(@, update)]
    IN PushEffect(st2, workInProgress, queue, update, isCaptured)

RECURSIVE ProcessList(_, _, _, _, _, _, _, _, _)
ProcessList(st, workInProgress, queue, update, props, instance, renderExpirationTime, isCaptured, fuel) ==
    IF update = NULL THEN st
    ELSE IF fuel = 0 THEN [st EXCEPT !.diverged = TRUE]
    ELSE LET st1 == IF st.h.u[update].expirationTime < renderExpirationTime
                    THEN SkipUpdate(st, update, isCaptured)
                    ELSE ApplyUpdate(st, workInProgress, queue, update,
                                     props, instance, isCaptured)
         IN ProcessList(st1, workInProgress, queue, st1.h.u[update].next, props,
                        instance, renderExpirationTime, isCaptured, fuel - 1)

\* Mutant: the base state is the result of the pass even when an update was skipped.
FinishPass_BaseIsResult(st, workInProgress, queue) ==
    [st EXCEPT
          !.h.q[queue].lastUpdate = IF st.newFirstUpdate = NULL THEN NULL ELSE @,
          !.h.q[queue].lastCapturedUpdate =
              IF st.newFirstCapturedUpdate = NULL THEN NULL ELSE @,
          !.h.f[workInProgress].effectTag =
              IF st.newFirstCapturedUpdate = NULL THEN @ ELSE @ \cup {Callback},
          !.newBaseState = st.resultState,
          !.h.q[queue].baseState = st.resultState,
          !.h.q[queue].firstUpdate = st.newFirstUpdate,
          !.h.q[queue].firstCapturedUpdate = st.newFirstCapturedUpdate,
          !.h.f[workInProgress].expirationTime = st.newExpirationTime,
          !.h.f[workInProgress].memoizedState = st.resultState]

\* Mutant: when an update was skipped the pending list keeps its first record.
FinishPass_KeepWholeList(st, workInProgress, queue) ==
    LET noSkip == st.newFirstUpdate = NULL /\ st.newFirstCapturedUpdate = NULL
    IN [st EXCEPT
          !.h.q[queue].lastUpdate = IF st.newFirstUpdate = NULL THEN NULL ELSE @,
          !.h.q[queue].lastCapturedUpdate =
              IF st.newFirstCapturedUpdate = NULL THEN NULL ELSE @,
          !.h.f[workInProgress].effectTag =
              IF st.newFirstCapturedUpdate = NULL THEN @ ELSE @ \cup {Callback},
          !.newBaseState = IF noSkip THEN st.resultState ELSE @,
          !.h.q[queue].baseState = IF noSkip THEN st.resultState ELSE st.newBaseState,
          !.h.q[queue].firstUpdate = IF st.newFirstUpdate = NULL THEN NULL ELSE @,
          !.h.q[queue].firstCapturedUpdate = st.newFirstCapturedUpdate,
          !.h.f[workInProgress].expirationTime = st.newExpirationTime,
          !.h.f[workInProgress].memoizedState = st.resultState]

\* Lines 646-679: the queue and the fiber after the two loops.
FinishPass(st, workInProgress, queue) ==
    LET noSkip == st.newFirstUpdate = NULL /\ st.newFirstCapturedUpdate = NULL
    IN [st EXCEPT
          !.h.q[queue].lastUpdate = IF st.newFirstUpdate = NULL THEN NULL ELSE @,
          !.h.q[queue].lastCapturedUpdate =
              IF st.newFirstCapturedUpdate = NULL THEN NULL ELSE @,
          !.h.f[workInProgress].effectTag =
              IF st.newFirstCapturedUpdate = NULL THEN @ ELSE @ \cup {Callback},
          !.newBaseState = IF noSkip THEN st.resultState ELSE @,
          !.h.q[queue].baseState = IF noSkip THEN st.resultState ELSE st.newBaseState,
          !.h.q[queue].firstUpdate = st.newFirstUpdate,
          !.h.q[queue].firstCapturedUpdate = st.newFirstCapturedUpdate,
          !.h.f[workInProgress].expirationTime = st.newExpirationTime,
          !.h.f[workInProgress].memoizedState = st.resultState]

\* processUpdateQueue(workInProgress, queue, props, instance, renderExpirationTime):
\* the locals after the call; .h is the heap it leaves.
processUpdateQueue(h, workInProgress, queue0, props, instance, renderExpirationTime) ==
    LET h1 == ensureWorkInProgressQueueIsAClone(h, workInProgress, queue0)
        queue == h1.f[workInProgress].updateQueue
        st0 == PassLocals(h1, h1.q[queue].baseState)
        st1 == ProcessList(st0, workInProgress, queue, h1.q[queue].firstUpdate,
                           props, instance, renderExpirationTime, FALSE, Len(h.u))
        st2 == IF st1.diverged THEN st1
               ELSE ProcessList(st1, workInProgress, queue,
                                st1.h.q[queue].firstCapturedUpdate, props, instance,
                                renderExpirationTime, TRUE, Len(h.u))
    IN IF st2.diverged THEN st2 ELSE FinishPass(st2, workInProgress, queue)

\* -------------------------------------------------- commitUpdateQueue
\* invariant(condition, format): the error it throws, if any.
NoError == "none"
invariant(condition, format) == IF condition THEN NoError ELSE format

InvalidCallback == "Invalid argument passed as callback. Expected a function."

\* Mutant: every callback that is not null passes for a function.
IsCallable_Always(callback) == TRUE

\* typeof callback === 'function': a callback is null, a function, or a value that
\* is neither.
IsCallable(callback) == callback = "fn"

\* The record a commit works on: no callback invoked yet, nothing thrown.
Committing(h) ==
    [h |-> h, called |-> <<>>, receivers |-> <<>>, error |-> NoError, diverged |-> FALSE]

\* callCallback(callback, context), for the callback that was on `effect`.
callCallback(c, effect, callback, context) ==
    LET error == invariant(IsCallable(callback), InvalidCallback)
    IN IF error # NoError
       THEN [c EXCEPT !.error = error]
       ELSE [c EXCEPT !.called = Append(@, effect),
                      !.receivers = Append(@, context)]

\* Mutant: the callback is put back on the update once it has returned.
RECURSIVE commitUpdateEffects_RestoresCallback(_, _, _, _)
commitUpdateEffects_RestoresCallback(c, effect, instance, fuel) ==
    IF effect = NULL THEN c
    ELSE IF fuel = 0 THEN [c EXCEPT !.diverged = TRUE]
    ELSE LET callback == c.h.u[effect].callback
             c1 == IF callback # "null"
                   THEN [callCallback([c EXCEPT !.h.u[effect].callback = "null"],
                                      effect, callback, instance)
                            EXCEPT !.h.u[effect].callback = callback]
                   ELSE c
         IN IF c1.error # NoError THEN c1
            ELSE commitUpdateEffects_RestoresCallback(c1, c1.h.u[effect].nextEffect,
                                                      instance, fuel - 1)

\* Mutant: the callback is left on the update when it is invoked.
RECURSIVE commitUpdateEffects_KeepCallback(_, _, _, _)
commitUpdateEffects_KeepCallback(c, effect, instance, fuel) ==
    IF effect = NULL THEN c
    ELSE IF fuel = 0 THEN [c EXCEPT !.diverged = TRUE]
    ELSE LET callback == c.h.u[effect].callback
             c1 == IF callback # "null"
                   THEN callCallback(c, effect, callback, instance)
                   ELSE c
         IN IF c1.error # NoError THEN c1
            ELSE commitUpdateEffects_KeepCallback(c1, c1.h.u[effect].nextEffect,
                                                  instance, fuel - 1)

\* commitUpdateEffects: c.h the heap, c.called the updates whose callback was
\* invoked, in order, c.receivers the receiver of each invocation.
RECURSIVE commitUpdateEffects(_, _, _, _)
commitUpdateEffects(c, effect, instance, fuel) ==
    IF effect = NULL THEN c
    ELSE IF fuel = 0 THEN [c EXCEPT !.diverged = TRUE]
    ELSE LET callback == c.h.u[effect].callback
             c1 == IF callback # "null"
                   THEN callCallback([c EXCEPT !.h.u[effect].callback = "null"],
                                     effect, callback, instance)
                   ELSE c
         IN IF c1.error # NoError THEN c1
            ELSE commitUpdateEffects(c1, c1.h.u[effect].nextEffect, instance, fuel - 1)

\* Mutant: the captured list is linked to the normal list at both of its ends.
SpliceCaptured_BothEnds(h, q) ==
    IF h.q[q].firstCapturedUpdate # NULL /\ h.q[q].lastUpdate # NULL
    THEN [h EXCEPT !.u[h.q[q].lastUpdate].next = h.q[q].firstCapturedUpdate,
                   !.u[h.q[q].lastCapturedUpdate].next = h.q[q].firstUpdate,
                   !.q[q].lastUpdate = h.q[q].lastCapturedUpdate,
                   !.q[q].firstCapturedUpdate = NULL,
                   !.q[q].lastCapturedUpdate = NULL]
    ELSE [h EXCEPT !.q[q].firstCapturedUpdate = NULL,
                   !.q[q].lastCapturedUpdate = NULL]

\* Lines 729-737: the captured list goes to the end of the normal list.
SpliceCaptured(h, q) ==
    IF h.q[q].firstCapturedUpdate # NULL
    THEN LET h1 == IF h.q[q].lastUpdate # NULL
                   THEN [h EXCEPT !.u[h.q[q].lastUpdate].next =
                                       h.q[q].firstCapturedUpdate,
                                  !.q[q].lastUpdate = h.q[q].lastCapturedUpdate]
                   ELSE h
         IN [h1 EXCEPT !.q[q].firstCapturedUpdate = NULL,
                       !.q[q].lastCapturedUpdate = NULL]
    ELSE h

\* Mutant: the captured effect list is committed before the normal effect list.
commitUpdateQueue_CapturedFirst(h, finishedWork, finishedQueue, instance, renderExpirationTime) ==
    LET h1 == SpliceCaptured(h, finishedQueue)
        c1 == commitUpdateEffects(Committing(h1),
                                  h1.q[finishedQueue].firstCapturedEffect, instance,
                                  Len(h.u) + 1)
        c2 == [c1 EXCEPT !.h.q[finishedQueue].firstCapturedEffect = NULL,
                         !.h.q[finishedQueue].lastCapturedEffect = NULL]
        c3 == commitUpdateEffects(c2, c2.h.q[finishedQueue].firstEffect,
                                  instance, Len(h.u) + 1)
    IN IF c1.diverged \/ c1.error # NoError THEN c1
       ELSE IF c3.diverged \/ c3.error # NoError THEN c3
       ELSE [c3 EXCEPT !.h.q[finishedQueue].firstEffect = NULL,
                       !.h.q[finishedQueue].lastEffect = NULL]

commitUpdateQueue(h, finishedWork, finishedQueue, instance, renderExpirationTime) ==
    LET h1 == SpliceCaptured(h, finishedQueue)
        c1 == commitUpdateEffects(Committing(h1),
                                  h1.q[finishedQueue].firstEffect, instance,
                                  Len(h.u) + 1)
        c2 == [c1 EXCEPT !.h.q[finishedQueue].firstEffect = NULL,
                         !.h.q[finishedQueue].lastEffect = NULL]
        c3 == commitUpdateEffects(c2, c2.h.q[finishedQueue].firstCapturedEffect,
                                  instance, Len(h.u) + 1)
    IN IF c1.diverged \/ c1.error # NoError THEN c1
       ELSE IF c3.diverged \/ c3.error # NoError THEN c3
       ELSE [c3 EXCEPT !.h.q[finishedQueue].firstCapturedEffect = NULL,
                       !.h.q[finishedQueue].lastCapturedEffect = NULL]

\* ------------------------------------------------------- host context
\* ReactFiberStack: a cursor holds the value on top; push saves the value it replaces.
\* The values a cursor holds: the marker NO_CONTEXT, a fiber, or a host value (a
\* container or a host context).
NO_CONTEXT == [kind |-> "NO_CONTEXT", ref |-> NULL, name |-> ""]
FiberRef(fiber) == [kind |-> "fiber", ref |-> fiber, name |-> ""]
HostValue(name) == [kind |-> "host", ref |-> NULL, name |-> name]
NoResult == [kind |-> "none", ref |-> NULL, name |-> ""]
MaxDepth == 3               \* entries a stack may hold

createCursor(defaultValue) == [current |-> defaultValue, saved |-> <<>>]

push(cursor, value, fiber) ==
    [current |-> value, saved |-> Append(cursor.saved, cursor.current)]

pop(cursor, fiber) ==
    IF cursor.saved = <<>> THEN cursor
    ELSE [current |-> cursor.saved[Len(cursor.saved)],
          saved |-> SubSeq(cursor.saved, 1, Len(cursor.saved) - 1)]

\* ReactFiberHostConfig: the host context is the namespace of the children.
HTML_NAMESPACE == HostValue("html")
SVG_NAMESPACE == HostValue("svg")
Containers == {HostValue("htmlContainer"), HostValue("svgContainer")}

getRootHostContext(rootContainerInstance) ==
    IF rootContainerInstance = HostValue("svgContainer")
    THEN SVG_NAMESPACE ELSE HTML_NAMESPACE

getChildHostContext(parentHostContext, type, rootContainerInstance) ==
    IF type = "svg" THEN SVG_NAMESPACE
    ELSE IF parentHostContext = SVG_NAMESPACE /\ type = "foreignObject"
         THEN HTML_NAMESPACE
    ELSE parentHostContext

\* The module state after loading, and no call made yet. entered lists the fibers
\* the work loop has begun and not completed, with whether the call for each pushed.
HostInit ==
    [contextStackCursor |-> createCursor(NO_CONTEXT),
     contextFiberStackCursor |-> createCursor(NO_CONTEXT),
     rootInstanceStackCursor |-> createCursor(NO_CONTEXT),
     op |-> "none", fiber |-> NULL, error |-> NoError, result |-> NoResult,
     entered |-> <<>>]

MissingHostContext == "Expected host context to exist."

\* Mutant: a cursor at its default value passes.
requiredContext_Unchecked(c) == NoError

\* requiredContext(c): the error it throws, if any (it returns c otherwise).
requiredContext(c) == invariant(c # NO_CONTEXT, MissingHostContext)

\* A call starts: the outcome of the call before is forgotten.
HostCall(hs, name, fiber) ==
    [hs EXCEPT !.op = name, !.fiber = fiber, !.error = NoError, !.result = NoResult]

getRootHostContainer(hs) ==
    LET error == requiredContext(hs.rootInstanceStackCursor.current)
    IN IF error # NoError THEN [hs EXCEPT !.error = error]
       ELSE [hs EXCEPT !.result = hs.rootInstanceStackCursor.current]

\* Mutant: the container is pushed without its fiber.
pushHostContainer_SkipsFiber(hs, fiber, nextRootInstance) ==
    LET hs1 == [hs EXCEPT !.rootInstanceStackCursor = push(@, nextRootInstance, fiber)]
        hs3 == [hs1 EXCEPT !.contextStackCursor = push(@, NO_CONTEXT, fiber)]
        nextRootContext == getRootHostContext(nextRootInstance)
        hs4 == [hs3 EXCEPT !.contextStackCursor = pop(@, fiber)]
    IN [hs4 EXCEPT !.contextStackCursor = push(@, nextRootContext, fiber)]

pushHostContainer(hs, fiber, nextRootInstance) ==
    LET hs1 == [hs EXCEPT !.rootInstanceStackCursor = push(@, nextRootInstance, fiber)]
        hs2 == [hs1 EXCEPT !.contextFiberStackCursor = push(@, FiberRef(fiber), fiber)]
        hs3 == [hs2 EXCEPT !.contextStackCursor = push(@, NO_CONTEXT, fiber)]
        nextRootContext == getRootHostContext(nextRootInstance)
        hs4 == [hs3 EXCEPT !.contextStackCursor = pop(@, fiber)]
    IN [hs4 EXCEPT !.contextStackCursor = push(@, nextRootContext, fiber)]

RendererError == "getRootHostContext threw"

\* Mutant: the context is computed before anything is pushed for it, so a throw
\* leaves the container and its fiber pushed and no context.
pushHostContainerThrowing_ComputesFirst(hs, fiber, nextRootInstance) ==
    LET hs1 == [hs EXCEPT !.rootInstanceStackCursor = push(@, nextRootInstance, fiber)]
        hs2 == [hs1 EXCEPT !.contextFiberStackCursor = push(@, FiberRef(fiber), fiber)]
    IN [hs2 EXCEPT !.error = RendererError]

\* pushHostContainer when getRootHostContext throws in the renderer: the three
\* pushes before the call have happened, the pop and push after it have not.
pushHostContainerThrowing(hs, fiber, nextRootInstance) ==
    LET hs1 == [hs EXCEPT !.rootInstanceStackCursor = push(@, nextRootInstance, fiber)]
        hs2 == [hs1 EXCEPT !.contextFiberStackCursor = push(@, FiberRef(fiber), fiber)]
        hs3 == [hs2 EXCEPT !.contextStackCursor = push(@, NO_CONTEXT, fiber)]
    IN [hs3 EXCEPT !.error = RendererError]

popHostContainer(hs, fiber) ==
    [hs EXCEPT !.contextStackCursor = pop(@, fiber),
               !.contextFiberStackCursor = pop(@, fiber),
               !.rootInstanceStackCursor = pop(@, fiber)]

getHostContext(hs) ==
    LET error == requiredContext(hs.contextStackCursor.current)
    IN IF error # NoError THEN [hs EXCEPT !.error = error]
       ELSE [hs EXCEPT !.result = hs.contextStackCursor.current]

\* Mutant: the fiber is pushed whether or not its context is a new one.
pushHostContext_AlwaysPushes(hs, fiber, type) ==
    LET rootInstance == hs.rootInstanceStackCursor.current
        context == hs.contextStackCursor.current
        error1 == requiredContext(rootInstance)
        error2 == requiredContext(context)
        nextContext == getChildHostContext(context, type, rootInstance)
    IN IF error1 # NoError THEN [hs EXCEPT !.error = error1]
       ELSE IF error2 # NoError THEN [hs EXCEPT !.error = error2]
       ELSE [hs EXCEPT !.contextFiberStackCursor = push(@, FiberRef(fiber), fiber),
                       !.contextStackCursor = push(@, nextContext, fiber)]

pushHostContext(hs, fiber, type) ==
    LET rootInstance == hs.rootInstanceStackCursor.current
        context == hs.contextStackCursor.current
        error1 == requiredContext(rootInstance)
        error2 == requiredContext(context)
        nextContext == getChildHostContext(context, type, rootInstance)
    IN IF error1 # NoError THEN [hs EXCEPT !.error = error1]
       ELSE IF error2 # NoError THEN [hs EXCEPT !.error = error2]
       ELSE IF context = nextContext THEN hs
       ELSE [hs EXCEPT !.contextFiberStackCursor = push(@, FiberRef(fiber), fiber),
                       !.contextStackCursor = push(@, nextContext, fiber)]

\* Mutant: the context is popped and the providing fiber stays.
popHostContext_KeepsFiber(hs, fiber) ==
    IF hs.contextFiberStackCursor.current # FiberRef(fiber) THEN hs
    ELSE [hs EXCEPT !.contextStackCursor = pop(@, fiber)]

popHostContext(hs, fiber) ==
    IF hs.contextFiberStackCursor.current # FiberRef(fiber) THEN hs
    ELSE [hs EXCEPT !.contextStackCursor = pop(@, fiber),
                    !.contextFiberStackCursor = pop(@, fiber)]

\* ------------------------------------------------------ DOM properties
\* A name is the sequence of its characters. A value given for a property carries
\* what typeof reports of it, what '' + value gives, and for isNaN and < what
\* Number(value) gives.
MaxCalls == 3               \* calls made on the element

AsciiLower == <<"a", "b", "c", "d", "e", "f", "g", "h", "i", "j", "k", "l", "m", "n", "o", "p", "q", "r", "s", "t", "u", "v", "w", "x", "y", "z">>
AsciiUpper == <<"A", "B", "C", "D", "E", "F", "G", "H", "I", "J", "K", "L", "M", "N", "O", "P", "Q", "R", "S", "T", "U", "V", "W", "X", "Y", "Z">>
Range(seq) == {seq[i] : i \in DOMAIN seq}

toLowerCase(name) ==
    [i \in DOMAIN name |->
        IF name[i] \in Range(AsciiUpper)
        THEN AsciiLower[CHOOSE k \in DOMAIN AsciiUpper : AsciiUpper[k] = name[i]]
        ELSE name[i]]

DomValue(t, s, nan, n) == [t |-> t, s |-> s, nan |-> nan, n |-> n]
DomValues ==
    [true |-> DomValue("boolean", "true", FALSE, 1),
     false |-> DomValue("boolean", "false", FALSE, 0),
     null |-> DomValue("null", "null", FALSE, 0),
     undefined |-> DomValue("undefined", "undefined", TRUE, 0),
     empty |-> DomValue("string", "", FALSE, 0),
     yes |-> DomValue("string", "yes", TRUE, 0)]
DomString(s) == IF s = "" THEN DomValues.empty ELSE DomValue("string", s, TRUE, 0)
Truthy(value) == (value.t = "boolean" /\ value.s = "true") \/ (value.t = "string" /\ value.s # "")

\* The characters of the two classes that the names of the model are written in.
ATTRIBUTE_NAME_START_CHAR == {":", "_"} \cup Range(AsciiUpper) \cup Range(AsciiLower)
ATTRIBUTE_NAME_CHAR == ATTRIBUTE_NAME_START_CHAR \cup {"-", ".", "0", "1", "2", "3", "4", "5", "6", "7", "8", "9"}

\* VALID_ATTRIBUTE_NAME_REGEX.test(attributeName)
VALID_ATTRIBUTE_NAME_REGEX(attributeName) ==
    /\ attributeName # <<>>
    /\ attributeName[1] \in ATTRIBUTE_NAME_START_CHAR
    /\ \A i \in DOMAIN attributeName : i > 1 => attributeName[i] \in ATTRIBUTE_NAME_CHAR

\* Whether the development build is modelled: getValueForProperty and the
\* diagnostic of isAttributeNameSafe exist in that build only.
DEV == TRUE

\* Mutant: an invalid name is not remembered.
isAttributeNameSafe_NoIllegalCache(d, attributeName) ==
    IF attributeName \in d.validatedAttributeNameCache THEN [d EXCEPT !.safe = TRUE]
    ELSE IF attributeName \in d.illegalAttributeNameCache THEN [d EXCEPT !.safe = FALSE]
    ELSE IF VALID_ATTRIBUTE_NAME_REGEX(attributeName)
         THEN [d EXCEPT !.validatedAttributeNameCache = @ \cup {attributeName}, !.safe = TRUE]
    ELSE [d EXCEPT !.warnings = IF DEV THEN Append(@, attributeName) ELSE @,
                   !.safe = FALSE]

\* isAttributeNameSafe: d.safe is the value returned.
isAttributeNameSafe(d, attributeName) ==
    IF attributeName \in d.validatedAttributeNameCache THEN [d EXCEPT !.safe = TRUE]
    ELSE IF attributeName \in d.illegalAttributeNameCache THEN [d EXCEPT !.safe = FALSE]
    ELSE IF VALID_ATTRIBUTE_NAME_REGEX(attributeName)
         THEN [d EXCEPT !.validatedAttributeNameCache = @ \cup {attributeName}, !.safe = TRUE]
    ELSE [d EXCEPT !.illegalAttributeNameCache = @ \cup {attributeName},
                   !.warnings = IF DEV THEN Append(@, attributeName) ELSE @,
                   !.safe = FALSE]

PropertyInfoRecord(name, type, mustUseProperty, attributeName, attributeNamespace) ==
    [acceptsBooleans |-> type \in {"BOOLEANISH_STRING", "BOOLEAN", "OVERLOADED_BOOLEAN"},
     attributeName |-> attributeName,
     attributeNamespace |-> attributeNamespace,
     mustUseProperty |-> mustUseProperty,
     propertyName |-> name,
     type |-> type]

\* getPropertyInfo returns null for a name that is not configured.
NoPropertyInfo == PropertyInfoRecord(<<>>, "null", FALSE, <<>>, "null")

\* The part of the configuration the model carries: one property or more of each type.
properties ==
    LET Lowered(name, type) == name :> PropertyInfoRecord(name, type, FALSE, toLowerCase(name), "null")
    IN (<<"s", "t", "y", "l", "e">> :>
           PropertyInfoRecord(<<"s", "t", "y", "l", "e">>, "RESERVED", FALSE, <<"s", "t", "y", "l", "e">>, "null"))
       @@ (<<"h", "t", "m", "l", "F", "o", "r">> :>
           PropertyInfoRecord(<<"h", "t", "m", "l", "F", "o", "r">>, "STRING", FALSE, <<"f", "o", "r">>, "null"))
       @@ Lowered(<<"v", "a", "l", "u", "e">>, "BOOLEANISH_STRING")
       @@ Lowered(<<"o", "p", "e", "n">>, "BOOLEAN")
       @@ Lowered(<<"n", "o", "M", "o", "d", "u", "l", "e">>, "BOOLEAN")
       @@ (<<"m", "u", "t", "e", "d">> :>
           PropertyInfoRecord(<<"m", "u", "t", "e", "d">>, "BOOLEAN", TRUE, <<"m", "u", "t", "e", "d">>, "null"))
       @@ (<<"c", "a", "p", "t", "u", "r", "e">> :>
           PropertyInfoRecord(<<"c", "a", "p", "t", "u", "r", "e">>, "OVERLOADED_BOOLEAN", FALSE, <<"c", "a", "p", "t", "u", "r", "e">>, "null"))
       @@ (<<"s", "i", "z", "e">> :>
           PropertyInfoRecord(<<"s", "i", "z", "e">>, "POSITIVE_NUMERIC", FALSE, <<"s", "i", "z", "e">>, "null"))
       @@ Lowered(<<"s", "t", "a", "r", "t">>, "NUMERIC")

getPropertyInfo(name) == IF name \in DOMAIN properties THEN properties[name] ELSE NoPropertyInfo

shouldIgnoreAttribute(name, propertyInfo, isCustomComponentTag) ==
    IF propertyInfo # NoPropertyInfo THEN propertyInfo.type = "RESERVED"
    ELSE IF isCustomComponentTag THEN FALSE
    ELSE /\ Len(name) > 2
         /\ name[1] \in {"o", "O"}
         /\ name[2] \in {"n", "N"}

shouldRemoveAttributeWithWarning(name, value, propertyInfo, isCustomComponentTag) ==
    IF propertyInfo # NoPropertyInfo /\ propertyInfo.type = "RESERVED" THEN FALSE
    ELSE IF value.t \in {"function", "symbol"} THEN TRUE
    ELSE IF value.t = "boolean"
         THEN IF isCustomComponentTag THEN FALSE
              ELSE IF propertyInfo # NoPropertyInfo THEN ~propertyInfo.acceptsBooleans
              ELSE LET prefix == SubSeq(toLowerCase(name), 1, IF Len(name) < 5 THEN Len(name) ELSE 5)
                   IN prefix # <<"d", "a", "t", "a", "-">> /\ prefix # <<"a", "r", "i", "a", "-">>
    ELSE FALSE

\* Mutant: a false value of a boolean property is kept.
shouldRemoveAttribute_KeepsFalse(name, value, propertyInfo, isCustomComponentTag) ==
    IF value.t \in {"null", "undefined"} THEN TRUE
    ELSE IF shouldRemoveAttributeWithWarning(name, value, propertyInfo, isCustomComponentTag)
         THEN TRUE
    ELSE IF isCustomComponentTag THEN FALSE
    ELSE IF propertyInfo # NoPropertyInfo
         THEN CASE propertyInfo.type = "BOOLEAN" -> FALSE
                [] propertyInfo.type = "OVERLOADED_BOOLEAN" -> value = DomValues.false
                [] propertyInfo.type = "NUMERIC" -> value.nan
                [] propertyInfo.type = "POSITIVE_NUMERIC" -> value.nan \/ value.n < 1
                [] OTHER -> FALSE
    ELSE FALSE

shouldRemoveAttribute(name, value, propertyInfo, isCustomComponentTag) ==
    IF value.t \in {"null", "undefined"} THEN TRUE
    ELSE IF shouldRemoveAttributeWithWarning(name, value, propertyInfo, isCustomComponentTag)
         THEN TRUE
    ELSE IF isCustomComponentTag THEN FALSE
    ELSE IF propertyInfo # NoPropertyInfo
         THEN CASE propertyInfo.type = "BOOLEAN" -> ~Truthy(value)
                [] propertyInfo.type = "OVERLOADED_BOOLEAN" -> value = DomValues.false
                [] propertyInfo.type = "NUMERIC" -> value.nan
                [] propertyInfo.type = "POSITIVE_NUMERIC" -> value.nan \/ value.n < 1
                [] OTHER -> FALSE
    ELSE FALSE

\* An element of an HTML document: its attributes by lower-cased name, each a string,
\* and its properties.
NodeInit ==
    [attributes |-> <<>>,
     props |-> (<<"m", "u", "t", "e", "d">> :> DomValues.false)]
hasAttribute(node, name) == toLowerCase(name) \in DOMAIN node.attributes
getAttribute(node, name) == node.attributes[toLowerCase(name)]
setAttribute(node, name, value) ==
    [node EXCEPT !.attributes =
        [a \in DOMAIN @ \cup {toLowerCase(name)} |-> IF a = toLowerCase(name) THEN value ELSE @[a]]]
removeAttribute(node, name) ==
    [node EXCEPT !.attributes = [a \in DOMAIN @ \ {toLowerCase(name)} |-> @[a]]]

\* The module state of DOMProperty after loading, an element, and no call made yet.
DomInit ==
    [node |-> NodeInit,
     validatedAttributeNameCache |-> {},
     illegalAttributeNameCache |-> {},
     warnings |-> <<>>,
     safe |-> FALSE,
     calls |-> 0,
     op |-> "none", name |-> <<>>, value |-> DomValues.undefined,
     isCustomComponentTag |-> {}, result |-> DomValues.undefined]

getValueForProperty(node, name, expected, propertyInfo) ==
    IF ~DEV THEN DomValues.undefined
    ELSE IF propertyInfo.mustUseProperty THEN node.props[propertyInfo.propertyName]
    ELSE LET attributeName == propertyInfo.attributeName
             remove == shouldRemoveAttribute(name, expected, propertyInfo, FALSE)
             present == hasAttribute(node, attributeName)
             value == IF present THEN getAttribute(node, attributeName) ELSE ""
         IN IF propertyInfo.type = "OVERLOADED_BOOLEAN" /\ present
            THEN IF value = "" THEN DomValues.true
                 ELSE IF remove THEN DomString(value)
                 ELSE IF value = expected.s THEN expected
                 ELSE DomString(value)
            ELSE IF propertyInfo.type # "OVERLOADED_BOOLEAN" /\ present /\ remove
                 THEN DomString(value)
            ELSE IF propertyInfo.type = "BOOLEAN" /\ present THEN expected
            ELSE LET isNull == ~present \/ propertyInfo.type = "OVERLOADED_BOOLEAN"
                 IN IF remove THEN (IF isNull THEN expected ELSE DomString(value))
                    ELSE IF ~isNull /\ value = expected.s THEN expected
                    ELSE IF isNull THEN DomValues.null ELSE DomString(value)

setValueForProperty(d, name, value, isCustomComponentTag) ==
    LET propertyInfo == getPropertyInfo(name)
        value1 == IF shouldRemoveAttribute(name, value, propertyInfo, isCustomComponentTag)
                  THEN DomValues.null ELSE value
    IN IF shouldIgnoreAttribute(name, propertyInfo, isCustomComponentTag) THEN d
       ELSE IF isCustomComponentTag \/ propertyInfo = NoPropertyInfo
            THEN LET d1 == isAttributeNameSafe(d, name)
                 IN IF ~d1.safe THEN d1
                    ELSE IF value1 = DomValues.null
                         THEN [d1 EXCEPT !.node = removeAttribute(@, name)]
                         ELSE [d1 EXCEPT !.node = setAttribute(@, name, value1.s)]
       ELSE IF propertyInfo.mustUseProperty
            THEN [d EXCEPT !.node.props[propertyInfo.propertyName] =
                     IF value1 = DomValues.null
                     THEN (IF propertyInfo.type = "BOOLEAN" THEN DomValues.false ELSE DomValues.empty)
                     ELSE value1]
       ELSE IF value1 = DomValues.null
            THEN [d EXCEPT !.node = removeAttribute(@, propertyInfo.attributeName)]
       ELSE LET attributeValue ==
                    IF \/ propertyInfo.type = "BOOLEAN"
                       \/ propertyInfo.type = "OVERLOADED_BOOLEAN" /\ value1 = DomValues.true
                    THEN "" ELSE value1.s
            IN [d EXCEPT !.node = setAttribute(@, propertyInfo.attributeName, attributeValue)]

\* ------------------------------------------------------------ actions
Positions == DOMAIN current
WorkInProgressOf(p) == fibers[current[p]].alternate
InitialState == StateOf(<<>>)

Op(name, p) == [op |-> name, p |-> p, renderExpirationTime |-> NoWork,
                applied |-> <<>>, reused |-> FALSE, stale |-> FALSE,
                called |-> <<>>, receivers |-> <<>>, error |-> NoError,
                arg |-> TypeUndefined]
NoOp == Op("none", 0)

\* The work-in-progress and the current fiber refer to the same queue object.
SharesQueue(p) ==
    /\ WorkInProgressOf(p) # NULL
    /\ fibers[WorkInProgressOf(p)].updateQueue # NULL
    /\ fibers[WorkInProgressOf(p)].updateQueue = fibers[current[p]].updateQueue

\* The module-level flags that make a warning appear once (ReactDOMOption,
\* ReactUpdateQueue), the queue processUpdateQueue is working on, the warnings
\* emitted so far in order, and the function that was called last.
DiagInit ==
    [didWarnSelectedSetOnOption |-> FALSE,
     didWarnInvalidChild |-> FALSE,
     didWarnUpdateInsideUpdate |-> FALSE,
     currentlyProcessingQueue |-> NULL,
     warnings |-> <<>>,
     op |-> "none"]

\* warning(false, ...) and warningWithoutStack(false, ...): the message is logged
\* and the caller goes on.
warning(d, message) == [d EXCEPT !.warnings = Append(@, message)]

\* A call starts.
DiagCall(d, op) == [d EXCEPT !.op = op]

\* The props of an <option>: selected is "undefined", "null", "true" or "false";
\* children is not an object ("string", "undefined"), null, or the children that
\* React.Children.forEach visits, each null, a string, a number, or an element
\* whose type is a string (a host element) or a function.
OptionChild(typeof, isNull, typeOfType) == [typeof |-> typeof, isNull |-> isNull, typeOfType |-> typeOfType]
OptionProps(typeofChildren, isNull, visited, selected) ==
    [children |-> [typeof |-> typeofChildren, isNull |-> isNull, visited |-> visited],
     selected |-> selected]

InvalidOptionChild == "Only strings and numbers are supported as <option> children."
SelectedSetOnOption == "Use the defaultValue or value props on <select> instead of setting selected on <option>."

\* validateProps(element, props) of ReactDOMOption.
validateProps(d, props) ==
    IF ~DEV THEN d
    ELSE LET warns(child) == /\ ~child.isNull
                             /\ child.typeof \notin {"string", "number"}
                             /\ child.typeOfType = "string"
             visited == IF props.children.typeof = "object" /\ ~props.children.isNull
                        THEN props.children.visited ELSE <<>>
             d1 == IF (\E i \in DOMAIN visited : warns(visited[i])) /\ ~d.didWarnInvalidChild
                   THEN [warning(d, InvalidOptionChild) EXCEPT !.didWarnInvalidChild = TRUE]
                   ELSE d
         IN IF props.selected \notin {"null", "undefined"} /\ ~d1.didWarnSelectedSetOnOption
            THEN [warning(d1, SelectedSetOnOption) EXCEPT !.didWarnSelectedSetOnOption = TRUE]
            ELSE d1

UpdateInsideUpdate == "An update (setState, replaceState, or forceUpdate) was scheduled from inside an update function."

\* The end of enqueueUpdate(fiber, update): h is the heap after the update was
\* appended, queue1 and queue2 the queues of the fiber and of its alternate.
warnUpdateInsideUpdate(d, h, fiber) ==
    LET alternate == h.f[fiber].alternate
        queue1 == h.f[fiber].updateQueue
        queue2 == IF alternate = NULL THEN NULL ELSE h.f[alternate].updateQueue
    IN IF /\ DEV
          /\ h.f[fiber].tag = ClassComponent
          /\ \/ d.currentlyProcessingQueue = queue1
             \/ queue2 # NULL /\ d.currentlyProcessingQueue = queue2
          /\ ~d.didWarnUpdateInsideUpdate
       THEN [warning(d, UpdateInsideUpdate) EXCEPT !.didWarnUpdateInsideUpdate = TRUE]
       ELSE d

\* A mounted component: one fiber, no alternate, no queue yet.
MountedFiber(tag, key) ==
    [FiberNode(tag, "props", key, TypeOfMode.NoContext) EXCEPT !.memoizedState = InitialState]

InitCommon ==
    /\ queues = [id \in QueueIds |-> FreeQueue]
    /\ updates = <<>>
    /\ hasForceUpdate = FALSE
    /\ callCount = <<>>
    /\ created = <<>>
    /\ passApplied = {}
    /\ consumed = {}
    /\ abandoned = 0
    /\ lastOp = NoOp
    /\ hung = FALSE
    /\ host = HostInit
    /\ dom = DomInit
    /\ diag = DiagInit

Init ==
    /\ fibers = <<MountedFiber(ClassComponent, "a")>>
    /\ current = <<1>>
    /\ phase = <<"idle">>
    /\ nextRenderExpirationTime = <<NoWork>>
    /\ InitCommon

Install(h) ==
    LET g == Collect(h)
    IN /\ fibers' = g.f
       /\ queues' = g.q
       /\ updates' = g.u

\* A caller's setState: createUpdate, fill in the fields, enqueueUpdate(fiber, update).
NewUpdate(expirationTime, tag, payload, callback) ==
    [createUpdate(expirationTime) EXCEPT !.tag = tag, !.payload = payload,
                                         !.callback = callback]

EnqueueUpdate(p, fiber, expirationTime, callback, limit) ==
    /\ ~hung
    /\ Len(updates) < limit
    /\ fiber \in {current[p], WorkInProgressOf(p)} \ {NULL}
    /\ LET update == Len(updates) + 1
           rec == NewUpdate(expirationTime, UpdateState,
                            AppendPayload(Letters[update]), callback)
           h0 == [Heap EXCEPT !.u = Append(@, rec)]
           h1 == enqueueUpdate(h0, fiber, update)
       IN /\ Install(h1)
          /\ diag' = warnUpdateInsideUpdate(diag, h1, fiber)
    /\ callCount' = Append(callCount, 0)
    /\ created' = Append(created, [via |-> "enqueueUpdate", callback |-> callback,
                                   pass |-> "none"])
    /\ lastOp' = Op("enqueueUpdate", p)
    /\ UNCHANGED <<current, phase, nextRenderExpirationTime, hasForceUpdate,
                   passApplied, consumed, abandoned, hung, host, dom>>

\* throwException: a capture update for the work-in-progress of the pass under way.
EnqueueCapturedUpdate(p, expirationTime, callback) ==
    /\ ~hung
    /\ Len(updates) < MaxUpdates
    /\ phase[p] = "render"
    /\ LET update == Len(updates) + 1
           rec == NewUpdate(expirationTime, CaptureUpdate,
                            AppendPayload(Letters[update]), callback)
           h0 == [Heap EXCEPT !.u = Append(@, rec)]
       IN Install(enqueueCapturedUpdate(h0, WorkInProgressOf(p), update))
    /\ callCount' = Append(callCount, 0)
    /\ created' = Append(created,
                         [via |-> "enqueueCapturedUpdate", callback |-> callback,
                          pass |-> "under way"])
    /\ lastOp' = Op("enqueueCapturedUpdate", p)
    /\ UNCHANGED <<current, phase, nextRenderExpirationTime, hasForceUpdate,
                   passApplied, consumed, abandoned, hung, host, dom, diag>>

\* The pass under way ends: the captured updates scheduled in it share its fate.
EndPass(fate) ==
    [u \in DOMAIN created |->
        IF created[u].pass = "under way" THEN [created[u] EXCEPT !.pass = fate]
        ELSE created[u]]

\* The fiber carries an effect tag and the three effect-list pointers.
HasEffects(fiber) ==
    /\ fiber # NULL
    /\ fibers[fiber].effectTag # NoEffect
    /\ fibers[fiber].nextEffect # NULL
    /\ fibers[fiber].firstEffect # NULL
    /\ fibers[fiber].lastEffect # NULL

\* A pass starts, or the pass under way is abandoned and started again from current.
CreateWorkInProgress(p, pendingProps, expirationTime, countAbandoned) ==
    /\ ~hung
    /\ Install(createWorkInProgress(Heap, current[p], pendingProps, expirationTime))
    /\ phase' = [phase EXCEPT ![p] = "render"]
    /\ nextRenderExpirationTime' = [nextRenderExpirationTime EXCEPT ![p] = expirationTime]
    /\ passApplied' = {}
    /\ abandoned' = IF ~countAbandoned THEN abandoned
                    ELSE IF phase[p] = "idle" THEN 0
                    ELSE IF 1 \in passApplied /\ abandoned < MaxAbandoned
                         THEN abandoned + 1
                    ELSE abandoned
    /\ lastOp' = [Op("createWorkInProgress", p) EXCEPT
                     !.reused = fibers[current[p]].alternate # NULL,
                     !.stale = /\ phase[p] = "render"
                               /\ HasEffects(fibers[current[p]].alternate)]
    /\ created' = EndPass("abandoned")
    /\ UNCHANGED <<current, hasForceUpdate, callCount, consumed, hung, host, dom, diag>>

\* beginWork on the work-in-progress: processUpdateQueue on its queue.
ProcessUpdateQueue(p) ==
    /\ ~hung
    /\ phase[p] = "render"
    /\ fibers[WorkInProgressOf(p)].updateQueue # NULL
    /\ LET workInProgress == WorkInProgressOf(p)
           renderExpirationTime == nextRenderExpirationTime[p]
           st == processUpdateQueue(Heap, workInProgress,
                                    fibers[workInProgress].updateQueue,
                                    fibers[workInProgress].pendingProps, "instance",
                                    renderExpirationTime)
       IN IF st.diverged
          THEN /\ hung' = TRUE
               /\ lastOp' = Op("processUpdateQueue", p)
               /\ UNCHANGED <<fibers, queues, updates, hasForceUpdate, passApplied>>
          ELSE /\ Install(st.h)
               /\ hasForceUpdate' = st.hasForceUpdate
               /\ passApplied' = passApplied \cup {st.applied[i] : i \in DOMAIN st.applied}
               /\ lastOp' = [Op("processUpdateQueue", p) EXCEPT
                                !.renderExpirationTime = renderExpirationTime,
                                !.applied = st.applied]
               /\ hung' = FALSE
    /\ UNCHANGED <<current, phase, nextRenderExpirationTime, callCount, created,
                   consumed, abandoned, host, dom, diag>>

\* The pass completes: commitUpdateQueue on the finished work, which then is current.
CommitRoot(p) ==
    /\ ~hung
    /\ phase[p] = "render"
    /\ LET finishedWork == WorkInProgressOf(p)
           finishedQueue == fibers[finishedWork].updateQueue
           c == IF finishedQueue = NULL
                THEN Committing(Heap)
                ELSE commitUpdateQueue(Heap, finishedWork, finishedQueue,
                                       "instance", nextRenderExpirationTime[p])
       IN /\ lastOp' = [Op("commitUpdateQueue", p) EXCEPT
                            !.called = c.called, !.receivers = c.receivers,
                            !.error = c.error]
          /\ callCount' = [u \in DOMAIN callCount |->
                              callCount[u] +
                              Cardinality({i \in DOMAIN c.called : c.called[i] = u})]
          /\ IF c.diverged
             THEN /\ hung' = TRUE
                  /\ UNCHANGED <<fibers, queues, updates, current, phase,
                                 nextRenderExpirationTime, passApplied, consumed,
                                 created>>
             ELSE IF c.error # NoError
             THEN \* the commit has thrown: the heap is as the throw left it
                  /\ Install(c.h)
                  /\ UNCHANGED <<current, phase, nextRenderExpirationTime,
                                 passApplied, consumed, created, hung>>
             ELSE /\ Install(c.h)
                  /\ current' = [current EXCEPT ![p] = finishedWork]
                  /\ phase' = [phase EXCEPT ![p] = "idle"]
                  /\ nextRenderExpirationTime' =
                         [nextRenderExpirationTime EXCEPT ![p] = NoWork]
                  /\ consumed' = consumed \cup passApplied
                  /\ created' = EndPass("committed")
                  /\ passApplied' = {}
                  /\ hung' = FALSE
    /\ UNCHANGED <<hasForceUpdate, abandoned, host, dom, diag>>

\* Spec: one tree position; updates scheduled by enqueueUpdate and
\* enqueueCapturedUpdate at any expiration time, without callbacks.  A pass runs at
\* the expiration time it was started with.
Next ==
    \/ \E p \in Positions, f \in DOMAIN fibers, e \in ExpirationTimes :
          EnqueueUpdate(p, f, e, "null", MaxUpdates)
    \/ \E p \in Positions, e \in ExpirationTimes : EnqueueCapturedUpdate(p, e, "null")
    \/ \E p \in Positions, e \in ExpirationTimes :
          CreateWorkInProgress(p, "props", e, FALSE)
    \/ \E p \in Positions : ProcessUpdateQueue(p)
    \/ \E p \in Positions : CommitRoot(p)

Spec == Init /\ [][Next]_vars

\* SpecExample: the example of the file header, A1 - B2 - C1 - D2: as many updates
\* as the example has, scheduled by enqueueUpdate alone at any expiration time.
ExampleLength == Len(<<"A", "B", "C", "D">>)

NextExample ==
    \/ \E p \in Positions, f \in DOMAIN fibers, e \in ExpirationTimes :
          EnqueueUpdate(p, f, e, "null", ExampleLength)
    \/ \E p \in Positions, e \in ExpirationTimes :
          CreateWorkInProgress(p, "props", e, FALSE)
    \/ \E p \in Positions : ProcessUpdateQueue(p)
    \/ \E p \in Positions : CommitRoot(p)

SpecExample == Init /\ [][NextExample]_vars

\* SpecRetry: updates scheduled by enqueueUpdate with and without a callback,
\* captured updates with a callback; the passes abandoned after they had applied
\* update 1 are counted.
NextRetry ==
    \/ \E p \in Positions, f \in DOMAIN fibers, e \in ExpirationTimes,
          cb \in {"null", "fn"} : EnqueueUpdate(p, f, e, cb, MaxUpdates)
    \/ \E p \in Positions, e \in ExpirationTimes : EnqueueCapturedUpdate(p, e, "fn")
    \/ \E p \in Positions, e \in ExpirationTimes :
          CreateWorkInProgress(p, "props", e, TRUE)
    \/ \E p \in Positions : ProcessUpdateQueue(p)
    \/ \E p \in Positions : CommitRoot(p)

SpecRetry == Init /\ [][NextRetry]_vars

\* SpecCallback: updates scheduled by enqueueUpdate with a function as callback or
\* with a callback that is not a function, captured updates with a function as
\* callback; every pass that is started is committed, and a commit may throw.
CallbackValues == {"fn", "notFunction"}

StartPass(p, expirationTime) ==
    /\ phase[p] = "idle"
    /\ CreateWorkInProgress(p, "props", expirationTime, FALSE)

NextCallback ==
    \/ \E p \in Positions, f \in DOMAIN fibers, e \in ExpirationTimes,
          cb \in CallbackValues : EnqueueUpdate(p, f, e, cb, MaxUpdates)
    \/ \E p \in Positions, e \in ExpirationTimes : EnqueueCapturedUpdate(p, e, "fn")
    \/ \E p \in Positions, e \in ExpirationTimes :
          StartPass(p, e)
    \/ \E p \in Positions : ProcessUpdateQueue(p)
    \/ \E p \in Positions : CommitRoot(p)

SpecCallback == Init /\ [][NextCallback]_vars

\* completeUnitOfWork of the scheduler: the work-in-progress is marked with side
\* effects and linked into the effect list that is assembled bottom-up.
CompleteUnitOfWork(p, effectTag, effect) ==
    /\ ~hung
    /\ phase[p] = "render"
    /\ effectTag # NoEffect
    /\ effect # WorkInProgressOf(p)
    /\ fibers' = [fibers EXCEPT ![WorkInProgressOf(p)] =
                     [@ EXCEPT !.effectTag = @ \cup effectTag,
                               !.nextEffect = effect,
                               !.firstEffect = effect,
                               !.lastEffect = effect]]
    /\ lastOp' = Op("completeUnitOfWork", p)
    /\ UNCHANGED <<queues, updates, current, phase, nextRenderExpirationTime,
                   hasForceUpdate, callCount, created,
                   passApplied, consumed, abandoned, hung, host, dom, diag>>

\* SpecFiber: two tree positions of different tags; passes are started, marked with
\* side effects, abandoned and committed.
PropsValues == {"props", "props2"}

InitFiber ==
    /\ fibers = <<MountedFiber(ClassComponent, "a"), MountedFiber(HostRoot, "b")>>
    /\ current = <<1, 2>>
    /\ phase = <<"idle", "idle">>
    /\ nextRenderExpirationTime = <<NoWork, NoWork>>
    /\ InitCommon

NextFiber ==
    \/ \E p \in Positions, props \in PropsValues :
          CreateWorkInProgress(p, props, HighExpirationTime, FALSE)
    \/ \E p \in Positions, effect \in DOMAIN fibers :
          CompleteUnitOfWork(p, {Placement}, effect)
    \/ \E p \in Positions : CommitRoot(p)

SpecFiber == InitFiber /\ [][NextFiber]_vars

HostComponent == "HostComponent"

\* SpecClone: a mounted component with two host children. Passes are started with
\* any props at any expiration time; a pass processes the queue, reconciles the
\* work-in-progress (its child, sibling, index, ref, context dependencies, memoized
\* props and child expiration time are written) and is committed or abandoned.
ReconciledFields ==
    <<[child |-> 2, sibling |-> 3, index |-> 1,
       ref |-> JSObject([k \in {"current"} |-> <<"x">>]),
       contextDependencies |-> JSObject([k \in {"first"} |-> <<"c">>]),
       childExpirationTime |-> LowExpirationTime],
      [child |-> 3, sibling |-> NULL, index |-> 2,
       ref |-> JSUndefined,
       contextDependencies |-> JSNull,
       childExpirationTime |-> HighExpirationTime]>>

\* beginWork and the reconciliation of the parent, as far as they write the fields
\* of the work-in-progress that createWorkInProgress copies.
ReconcileChildren(p, reconciled) ==
    /\ ~hung
    /\ phase[p] = "render"
    /\ fibers' = [fibers EXCEPT ![WorkInProgressOf(p)] =
                     [@ EXCEPT !.child = reconciled.child,
                               !.sibling = reconciled.sibling,
                               !.index = reconciled.index,
                               !.ref = reconciled.ref,
                               !.contextDependencies = reconciled.contextDependencies,
                               !.childExpirationTime = reconciled.childExpirationTime,
                               !.memoizedProps = fibers[WorkInProgressOf(p)].pendingProps]]
    /\ lastOp' = Op("reconcileChildren", p)
    /\ UNCHANGED <<queues, updates, current, phase, nextRenderExpirationTime,
                   hasForceUpdate, callCount, created,
                   passApplied, consumed, abandoned, hung, host, dom, diag>>

InitClone ==
    /\ fibers = <<[MountedFiber(ClassComponent, "a") EXCEPT !.memoizedProps = "props"],
                  [MountedFiber(HostComponent, "b") EXCEPT !.type = "div"],
                  [MountedFiber(HostComponent, "c") EXCEPT !.type = "span"]>>
    /\ current = <<1>>
    /\ phase = <<"idle">>
    /\ nextRenderExpirationTime = <<NoWork>>
    /\ InitCommon

NextClone ==
    \/ \E p \in Positions, f \in DOMAIN fibers, e \in ExpirationTimes :
          EnqueueUpdate(p, f, e, "null", 1)
    \/ \E p \in Positions, props \in PropsValues, e \in ExpirationTimes :
          CreateWorkInProgress(p, props, e, FALSE)
    \/ \E p \in Positions : ProcessUpdateQueue(p)
    \/ \E p \in Positions, i \in DOMAIN ReconciledFields :
          ReconcileChildren(p, ReconciledFields[i])
    \/ \E p \in Positions : CommitRoot(p)

SpecClone == InitClone /\ [][NextClone]_vars

\* ------------------------------------------------ host context actions
queueVars == <<fibers, queues, updates, current, phase, nextRenderExpirationTime, hasForceUpdate, callCount, created, passApplied, consumed, abandoned, lastOp, hung, dom, diag>>

Depth(cursor) == Len(cursor.saved)

PushHostContainer(fiber, nextRootInstance) ==
    /\ Depth(host.rootInstanceStackCursor) < MaxDepth
    /\ Depth(host.contextStackCursor) < MaxDepth
    /\ host' = pushHostContainer(HostCall(host, "pushHostContainer", fiber),
                                 fiber, nextRootInstance)
    /\ UNCHANGED queueVars

PushHostContainerThrowing(fiber, nextRootInstance) ==
    /\ Depth(host.rootInstanceStackCursor) < MaxDepth
    /\ Depth(host.contextStackCursor) < MaxDepth
    /\ host' = pushHostContainerThrowing(HostCall(host, "pushHostContainer", fiber),
                                         fiber, nextRootInstance)
    /\ UNCHANGED queueVars

PopHostContainer(fiber) ==
    /\ host' = popHostContainer(HostCall(host, "popHostContainer", fiber), fiber)
    /\ UNCHANGED queueVars

PushHostContext(fiber) ==
    /\ Depth(host.contextStackCursor) < MaxDepth
    /\ host' = pushHostContext(HostCall(host, "pushHostContext", fiber),
                               fiber, fibers[fiber].type)
    /\ UNCHANGED queueVars

PopHostContext(fiber) ==
    /\ host' = popHostContext(HostCall(host, "popHostContext", fiber), fiber)
    /\ UNCHANGED queueVars

GetHostContext ==
    /\ host' = getHostContext(HostCall(host, "getHostContext", NULL))
    /\ UNCHANGED queueVars

GetRootHostContainer ==
    /\ host' = getRootHostContainer(HostCall(host, "getRootHostContainer", NULL))
    /\ UNCHANGED queueVars

\* A mounted host fiber of the given type.
HostFiber(tag, type, key) == [MountedFiber(tag, key) EXCEPT !.type = type]

\* SpecHost: a root and two host components; the six functions of the host context
\* module are called in any order with any of the fibers.
HostFibers == <<HostFiber(HostRoot, NoType, "r"), HostFiber(HostComponent, "svg", "a"), HostFiber(HostComponent, "foreignObject", "b")>>

InitHost ==
    /\ fibers = HostFibers
    /\ current = <<1, 2, 3>>
    /\ phase = <<"idle", "idle", "idle">>
    /\ nextRenderExpirationTime = <<NoWork, NoWork, NoWork>>
    /\ InitCommon

NextHost ==
    \/ \E fiber \in DOMAIN fibers, c \in Containers : PushHostContainer(fiber, c)
    \/ \E fiber \in DOMAIN fibers : PopHostContainer(fiber)
    \/ \E fiber \in DOMAIN fibers : PushHostContext(fiber)
    \/ \E fiber \in DOMAIN fibers : PopHostContext(fiber)
    \/ GetHostContext
    \/ GetRootHostContainer

SpecHost == InitHost /\ [][NextHost]_vars

\* SpecUnwind: the calls of SpecHost, and pushHostContainer calls in which the
\* renderer throws.
NextUnwind ==
    \/ NextHost
    \/ \E fiber \in DOMAIN fibers, c \in Containers : PushHostContainerThrowing(fiber, c)

SpecUnwind == InitHost /\ [][NextUnwind]_vars

\* ------------------------------------------------ host tree walk
\* SpecWalk: the work loop walks down and up a tree of host fibers. Beginning the
\* root pushes its container, beginning a host component calls pushHostContext,
\* completing a fiber calls the matching pop; a fiber is begun once and completed
\* before its parent; a portal pushes a container of its own. Any nesting of the
\* four host components and the portal is walked, and the two getters are called
\* anywhere on the way. Each fiber on the way is listed in host.entered with the
\* cursors before it was begun and the context and container it has set.
HostPortal == "HostPortal"
WalkFibers == <<HostFiber(HostRoot, NoType, "r"), HostFiber(HostComponent, "svg", "a"), HostFiber(HostComponent, "foreignObject", "b"), HostFiber(HostComponent, "div", "c"), HostFiber(HostComponent, "svg", "d"), HostFiber(HostPortal, NoType, "p")>>

Cursors(hs) ==
    <<hs.contextStackCursor, hs.contextFiberStackCursor, hs.rootInstanceStackCursor>>

Enter(hs, fiber) ==
    [hs EXCEPT !.entered = Append(@, [fiber |-> fiber,
                                      pushed |-> Cursors(hs) # Cursors(host),
                                      before |-> Cursors(host),
                                      context |-> hs.contextStackCursor.current,
                                      container |-> hs.rootInstanceStackCursor.current])]

NotEntered(fiber) ==
    /\ Len(host.entered) <= MaxDepth
    /\ \A i \in DOMAIN host.entered : host.entered[i].fiber # fiber

BeginHostRoot(fiber, nextRootInstance) ==
    /\ \/ fibers[fiber].tag = HostRoot /\ host.entered = <<>>
       \/ fibers[fiber].tag = HostPortal /\ host.entered # <<>> /\ NotEntered(fiber)
    /\ host' = Enter(pushHostContainer(HostCall(host, "pushHostContainer", fiber), fiber, nextRootInstance), fiber)
    /\ UNCHANGED queueVars

BeginHostComponent(fiber) ==
    /\ host.entered # <<>>
    /\ NotEntered(fiber)
    /\ fibers[fiber].tag = HostComponent
    /\ host' = Enter(pushHostContext(HostCall(host, "pushHostContext", fiber), fiber, fibers[fiber].type), fiber)
    /\ UNCHANGED queueVars

CompleteHost ==
    /\ host.entered # <<>>
    /\ LET fiber == host.entered[Len(host.entered)].fiber
           hs == IF fibers[fiber].tag \in {HostRoot, HostPortal}
                 THEN popHostContainer(HostCall(host, "popHostContainer", fiber), fiber)
                 ELSE popHostContext(HostCall(host, "popHostContext", fiber), fiber)
       IN host' = [hs EXCEPT !.entered = SubSeq(@, 1, Len(@) - 1)]
    /\ UNCHANGED queueVars

InitWalk ==
    /\ fibers = WalkFibers
    /\ current = <<1, 2, 3, 4, 5, 6>>
    /\ phase = <<"idle", "idle", "idle", "idle", "idle", "idle">>
    /\ nextRenderExpirationTime = <<NoWork, NoWork, NoWork, NoWork, NoWork, NoWork>>
    /\ InitCommon

NextWalk ==
    \/ \E fiber \in DOMAIN fibers, c \in Containers : BeginHostRoot(fiber, c)
    \/ \E fiber \in DOMAIN fibers : BeginHostComponent(fiber)
    \/ CompleteHost
    \/ host.entered # <<>> /\ GetHostContext
    \/ host.entered # <<>> /\ GetRootHostContainer

SpecWalk == InitWalk /\ [][NextWalk]_vars

\* ------------------------------------------------ DOM property actions
hostVars == <<fibers, queues, updates, current, phase, nextRenderExpirationTime, hasForceUpdate, callCount, created, passApplied, consumed, abandoned, lastOp, hung, host, diag>>

\* A call starts: the outcome of the call before is forgotten.
DomCall(d, op, name, value, isCustomComponentTag) ==
    [d EXCEPT !.op = op, !.name = name, !.value = value,
              !.isCustomComponentTag = @ \cup isCustomComponentTag,
              !.result = DomValues.undefined, !.safe = FALSE, !.calls = @ + 1]

\* Whether the element is a custom component is a fact of the element: every call
\* on it passes the same flag.
SetValueForProperty(name, value, isCustomComponentTag) ==
    /\ dom.calls < MaxCalls
    /\ dom.isCustomComponentTag \subseteq {isCustomComponentTag}
    /\ dom' = setValueForProperty(DomCall(dom, "setValueForProperty", name, value, {isCustomComponentTag}),
                                  name, value, isCustomComponentTag)
    /\ UNCHANGED hostVars

\* The caller passes the configuration of the name; expected is the hint.
GetValueForProperty(name, expected) ==
    /\ dom.calls < MaxCalls
    /\ name \in DOMAIN properties
    /\ dom' = [DomCall(dom, "getValueForProperty", name, expected, {}) EXCEPT
                  !.result = getValueForProperty(dom.node, name, expected, getPropertyInfo(name))]
    /\ UNCHANGED hostVars

IsAttributeNameSafe(attributeName) ==
    /\ dom.calls < MaxCalls
    /\ dom' = isAttributeNameSafe(DomCall(dom, "isAttributeNameSafe", attributeName, DomValues.undefined, {}),
                                  attributeName)
    /\ UNCHANGED hostVars

\* SpecDom: the three functions are called in any order on one element, with
\* configured names of three types, unconfigured names (valid, event-like, and two
\* invalid ones) and boolean, null and string values.
DomNames ==
    {name \in DOMAIN properties :
        properties[name].type \in {"RESERVED", "BOOLEAN", "OVERLOADED_BOOLEAN"}}
       \cup {<<"d", "a", "t", "a", "-", "x">>, <<"o", "n", "x">>, <<"x", " ", "y">>, <<"1">>}
DomInputs == {DomValues.true, DomValues.false, DomValues.null, DomValues.yes}

NextDom ==
    \/ \E name \in DomNames, value \in DomInputs, isCustomComponentTag \in {TRUE, FALSE} :
          SetValueForProperty(name, value, isCustomComponentTag)
    \/ \E name \in DomNames, expected \in DomInputs \ {DomValues.yes} :
          GetValueForProperty(name, expected)
    \/ \E attributeName \in DomNames : IsAttributeNameSafe(attributeName)

SpecDom == Init /\ [][NextDom]_vars

\* ------------------------------------------- createFiberFromTypeAndProps
InvalidElementType == "Element type is invalid: expected a string (for built-in components) or a class/function (for composite components)"

\* Mutant: every function is taken for a class.
shouldConstruct_Always(Component) == TRUE

shouldConstruct(Component) == Component.isReactComponent

\* The outcome of a function that returns a fiber or throws.
Returned(h, fiber) == [h |-> h, error |-> NoError, fiber |-> fiber, warnings |-> <<>>]
Thrown(h, error) == [h |-> h, error |-> error, fiber |-> NULL, warnings |-> <<>>]

\* The props of an element, as far as createFiberFromProfiler looks at them: what
\* typeof says of props.id and of props.onRender.
ElementProps(id, onRender) == [id |-> id, onRender |-> onRender]

ProfilerProps == "Profiler must specify an id string and onRender function as props"

\* createFiber and the assignments to fiber.type and fiber.expirationTime that follow it.
NewFiber(h, tag, pendingProps, key, mode, type, expirationTime) ==
    LET a == createFiber(h, tag, pendingProps, key, mode)
        n == Len(a.f)
    IN Returned([a EXCEPT !.f[n].type = type, !.f[n].expirationTime = expirationTime], n)

createFiberFromFragment(h, elements, mode, expirationTime, key) ==
    NewFiber(h, WorkTags.Fragment, elements, key, mode, NoType, expirationTime)

createFiberFromProfiler(h, pendingProps, mode, expirationTime, key) ==
    LET r == NewFiber(h, WorkTags.Profiler, pendingProps, key, mode \cup {TypeOfMode.ProfileMode},
                      ReactSymbols.REACT_PROFILER_TYPE.name, expirationTime)
    IN IF DEV /\ (pendingProps.id # "string" \/ pendingProps.onRender # "function")
       THEN [r EXCEPT !.warnings = <<ProfilerProps>>]
       ELSE r

createFiberFromMode(h, pendingProps, mode, expirationTime, key) ==
    NewFiber(h, WorkTags.Mode, pendingProps, key, mode,
             IF TypeOfMode.ConcurrentMode \notin mode THEN ReactSymbols.REACT_STRICT_MODE_TYPE.name
             ELSE ReactSymbols.REACT_CONCURRENT_MODE_TYPE.name,
             expirationTime)

createFiberFromSuspense(h, pendingProps, mode, expirationTime, key) ==
    NewFiber(h, WorkTags.SuspenseComponent, pendingProps, key, mode,
             ReactSymbols.REACT_SUSPENSE_TYPE.name, expirationTime)

\* Mutant: an object tagged as lazy is not recognised.
TaggedObjectTag_NoLazy(type) ==
    IF type.typeof = "object" /\ ~type.isNull
    THEN CASE type.tagged = ReactSymbols.REACT_PROVIDER_TYPE.name -> WorkTags.ContextProvider
           [] type.tagged = ReactSymbols.REACT_CONTEXT_TYPE.name -> WorkTags.ContextConsumer
           [] type.tagged = ReactSymbols.REACT_FORWARD_REF_TYPE.name -> WorkTags.ForwardRef
           [] type.tagged = ReactSymbols.REACT_MEMO_TYPE.name -> WorkTags.MemoComponent
           [] OTHER -> "invalid"
    ELSE "invalid"

\* The switch on type.$$typeof: the tag of the fiber, or "invalid".
TaggedObjectTag(type) ==
    IF type.typeof = "object" /\ ~type.isNull
    THEN CASE type.tagged = ReactSymbols.REACT_PROVIDER_TYPE.name -> WorkTags.ContextProvider
           [] type.tagged = ReactSymbols.REACT_CONTEXT_TYPE.name -> WorkTags.ContextConsumer
           [] type.tagged = ReactSymbols.REACT_FORWARD_REF_TYPE.name -> WorkTags.ForwardRef
           [] type.tagged = ReactSymbols.REACT_MEMO_TYPE.name -> WorkTags.MemoComponent
           [] type.tagged = ReactSymbols.REACT_LAZY_TYPE.name -> WorkTags.LazyComponent
           [] OTHER -> "invalid"
    ELSE "invalid"

createFiberFromTypeAndProps(h, type, key, pendingProps, owner, mode, expirationTime) ==
    IF type.typeof = "function"
    THEN NewFiber(h, IF shouldConstruct(type) THEN ClassComponent
                     ELSE WorkTags.IndeterminateComponent,
                  pendingProps, key, mode, type.name, expirationTime)
    ELSE IF type.typeof = "string"
    THEN NewFiber(h, HostComponent, pendingProps, key, mode, type.name, expirationTime)
    ELSE CASE type = ReactSymbols.REACT_FRAGMENT_TYPE ->
                 createFiberFromFragment(h, "children", mode, expirationTime, key)
           [] type = ReactSymbols.REACT_CONCURRENT_MODE_TYPE ->
                 createFiberFromMode(h, pendingProps,
                                     mode \cup {TypeOfMode.ConcurrentMode, TypeOfMode.StrictMode},
                                     expirationTime, key)
           [] type = ReactSymbols.REACT_STRICT_MODE_TYPE ->
                 createFiberFromMode(h, pendingProps, mode \cup {TypeOfMode.StrictMode},
                                     expirationTime, key)
           [] type = ReactSymbols.REACT_PROFILER_TYPE ->
                 createFiberFromProfiler(h, pendingProps, mode, expirationTime, key)
           [] type = ReactSymbols.REACT_SUSPENSE_TYPE ->
                 createFiberFromSuspense(h, pendingProps, mode, expirationTime, key)
           [] OTHER ->
                 LET fiberTag == TaggedObjectTag(type)
                     error == invariant(fiberTag # "invalid", InvalidElementType)
                 IN IF error # NoError THEN Thrown(h, error)
                    ELSE NewFiber(h, fiberTag, pendingProps, key, mode,
                                  IF fiberTag = WorkTags.LazyComponent THEN NoType
                                  ELSE type.name,
                                  expirationTime)

\* ---------------------------------------------------- creation actions
\* The values an element can carry as its type.
ElementTypes ==
    { JSType("function", "Class", TRUE, "undefined"),
      JSType("function", "Function", FALSE, "undefined"),
      JSType("string", "div", FALSE, "undefined"),
      JSType("string", "", FALSE, "undefined"),
      JSType("number", "42", FALSE, "undefined"),
      JSType("boolean", "true", FALSE, "undefined"),
      TypeUndefined, TypeNull,
      ReactSymbols.REACT_FRAGMENT_TYPE, ReactSymbols.REACT_CONCURRENT_MODE_TYPE, ReactSymbols.REACT_STRICT_MODE_TYPE,
      ReactSymbols.REACT_PROFILER_TYPE, ReactSymbols.REACT_SUSPENSE_TYPE,
      ReactSymbols.REACT_ELEMENT_TYPE, ReactSymbols.REACT_PORTAL_TYPE, ReactSymbols.REACT_PROVIDER_TYPE, ReactSymbols.REACT_LAZY_TYPE,
      TaggedObject(ReactSymbols.REACT_PROVIDER_TYPE.name), TaggedObject(ReactSymbols.REACT_CONTEXT_TYPE.name),
      TaggedObject(ReactSymbols.REACT_FORWARD_REF_TYPE.name), TaggedObject(ReactSymbols.REACT_MEMO_TYPE.name),
      TaggedObject(ReactSymbols.REACT_LAZY_TYPE.name),
      TaggedObject(ReactSymbols.REACT_ELEMENT_TYPE.name), TaggedObject(ReactSymbols.REACT_FRAGMENT_TYPE.name),
      TaggedObject("undefined") }

\* The modes createHostRootFiber gives a root, which its descendants are created with.
RootModes == {TypeOfMode.NoContext, {TypeOfMode.ConcurrentMode, TypeOfMode.StrictMode}}

\* The props an element of the given type comes with: a Profiler with and without
\* its id and its onRender, any other element without them.
ElementPropsOf(type) ==
    IF type = ReactSymbols.REACT_PROFILER_TYPE
    THEN {ElementProps("string", "function"), ElementProps("undefined", "function"),
          ElementProps("string", "undefined")}
    ELSE {ElementProps("undefined", "undefined")}

\* createFiberFromElement: a fiber for an element of the given type, or a throw that
\* leaves the heap as it was.
CreateFiberFromTypeAndProps(type, pendingProps, mode, expirationTime) ==
    /\ Len(fibers) < Len(current) + MaxCreated
    /\ LET r == createFiberFromTypeAndProps(Heap, type, "k", pendingProps, NULL, mode,
                                            expirationTime)
       IN /\ Install(r.h)
          /\ diag' = [diag EXCEPT !.op = "createFiberFromTypeAndProps",
                                  !.warnings = @ \o r.warnings]
          /\ lastOp' = [Op("createFiberFromTypeAndProps", r.fiber)
                           EXCEPT !.arg = type, !.error = r.error]
    /\ UNCHANGED <<current, phase, nextRenderExpirationTime, hasForceUpdate,
                   callCount, created, passApplied, consumed, abandoned, hung, host, dom>>

\* SpecCreate: under a mounted root, fibers are created from elements of every type.
InitCreate ==
    /\ fibers = <<MountedFiber(HostRoot, "r")>>
    /\ current = <<1>>
    /\ phase = <<"idle">>
    /\ nextRenderExpirationTime = <<NoWork>>
    /\ InitCommon

NextCreate ==
    \E type \in ElementTypes, mode \in RootModes :
        \E pendingProps \in ElementPropsOf(type) :
            CreateFiberFromTypeAndProps(type, pendingProps, mode, HighExpirationTime)

SpecCreate == InitCreate /\ [][NextCreate]_vars

\* ------------------------------------------------------- diagnostics
\* ReactDOMOption.validateProps on the props of an <option>.
ValidateProps(props) ==
    /\ diag' = validateProps(DiagCall(diag, "validateProps"), props)
    /\ UNCHANGED <<fibers, queues, updates, current, phase, nextRenderExpirationTime,
                   hasForceUpdate, callCount, created, passApplied, consumed, abandoned,
                   lastOp, hung, host, dom>>

\* processUpdateQueue on the work-in-progress with an update function that calls
\* setState: the queue is cloned and becomes currentlyProcessingQueue, the function
\* of the first update enqueues an update on the fiber, and the loop goes on over
\* the list, which now ends with that update.
ProcessUpdateQueueWithSetState(p, fiber, expirationTime) ==
    /\ ~hung
    /\ phase[p] = "render"
    /\ Len(updates) < MaxUpdates
    /\ fiber \in {current[p], WorkInProgressOf(p)}
    /\ LET workInProgress == WorkInProgressOf(p)
           queue0 == fibers[workInProgress].updateQueue
           renderExpirationTime == nextRenderExpirationTime[p]
       IN /\ queue0 # NULL
          /\ queues[queue0].firstUpdate # NULL
          /\ ~(updates[queues[queue0].firstUpdate].expirationTime < renderExpirationTime)
          /\ LET update == Len(updates) + 1
                 rec == NewUpdate(expirationTime, UpdateState,
                                  AppendPayload(Letters[update]), "null")
                 h1 == ensureWorkInProgressQueueIsAClone(Heap, workInProgress, queue0)
                 d1 == [diag EXCEPT !.op = "processUpdateQueue",
                                    !.currentlyProcessingQueue = h1.f[workInProgress].updateQueue]
                 h2 == enqueueUpdate([h1 EXCEPT !.u = Append(@, rec)], fiber, update)
                 d2 == warnUpdateInsideUpdate(d1, h2, fiber)
                 st == processUpdateQueue(h2, workInProgress, h2.f[workInProgress].updateQueue,
                                          fibers[workInProgress].pendingProps, "instance",
                                          renderExpirationTime)
             IN /\ ~st.diverged
                /\ Install(st.h)
                /\ hasForceUpdate' = st.hasForceUpdate
                /\ passApplied' = passApplied \cup {st.applied[i] : i \in DOMAIN st.applied}
                /\ lastOp' = [Op("processUpdateQueue", p) EXCEPT
                                 !.renderExpirationTime = renderExpirationTime,
                                 !.applied = st.applied]
                /\ diag' = [d2 EXCEPT !.currentlyProcessingQueue = NULL]
    /\ callCount' = Append(callCount, 0)
    /\ created' = Append(created, [via |-> "enqueueUpdate", callback |-> "null",
                                   pass |-> "none"])
    /\ UNCHANGED <<current, phase, nextRenderExpirationTime, consumed, abandoned,
                   hung, host, dom>>

\* SpecDiag: one class component takes updates and passes, with update functions
\* that call setState; <option> props are validated; Profiler elements with and
\* without their props are turned into fibers.
OptionChildren ==
    {<<>>,
     <<OptionChild("string", FALSE, "undefined")>>,
     <<OptionChild("object", FALSE, "string")>>,
     <<OptionChild("object", FALSE, "function"), OptionChild("object", TRUE, "undefined")>>,
     <<OptionChild("object", FALSE, "string"), OptionChild("number", FALSE, "undefined"),
       OptionChild("object", FALSE, "string")>>}

OptionPropsValues ==
    {OptionProps("object", FALSE, visited, selected) :
        visited \in OptionChildren, selected \in {"undefined", "true"}}
      \cup {OptionProps("string", FALSE, <<>>, "false"), OptionProps("object", TRUE, <<>>, "null")}

NextDiag ==
    \/ \E props \in OptionPropsValues : ValidateProps(props)
    \/ \E pendingProps \in ElementPropsOf(ReactSymbols.REACT_PROFILER_TYPE) :
          CreateFiberFromTypeAndProps(ReactSymbols.REACT_PROFILER_TYPE, pendingProps,
                                      TypeOfMode.NoContext, HighExpirationTime)
    \/ \E p \in Positions, f \in DOMAIN fibers :
          EnqueueUpdate(p, f, HighExpirationTime, "null", MaxUpdates)
    \/ \E p \in Positions : CreateWorkInProgress(p, "props", HighExpirationTime, FALSE)
    \/ \E p \in Positions : ProcessUpdateQueue(p)
    \/ \E p \in Positions, f \in DOMAIN fibers :
          ProcessUpdateQueueWithSetState(p, f, HighExpirationTime)
    \/ \E p \in Positions : CommitRoot(p)

SpecDiag == Init /\ [][NextDiag]_vars

\* ---------------------------------------------------- fibers of two modes
\* SpecMode: a root created without mode flags and a host component below a strict
\* mode boundary; passes are started and committed on both, the root's queue takes
\* updates and is processed, and the host context stacks are pushed and popped.
InitMode ==
    /\ fibers = <<HostFiber(HostRoot, NoType, "r"), [HostFiber(HostComponent, "svg", "a") EXCEPT !.mode = {TypeOfMode.StrictMode}]>>
    /\ current = <<1, 2>>
    /\ phase = <<"idle", "idle">>
    /\ nextRenderExpirationTime = <<NoWork, NoWork>>
    /\ InitCommon

\* beginWork pushes for the work-in-progress of the pass under way, once.
BeginWork(p) ==
    /\ phase[p] = "render"
    /\ \A i \in DOMAIN host.contextFiberStackCursor.saved :
          host.contextFiberStackCursor.saved[i] # FiberRef(WorkInProgressOf(p))
    /\ host.contextFiberStackCursor.current # FiberRef(WorkInProgressOf(p))

\* One pass at a time; completeWork pops for the work-in-progress of the pass under way.
NextMode ==
    \/ \E p \in Positions :
          (\A q \in Positions : phase[q] = "idle") /\ StartPass(p, HighExpirationTime)
    \/ \E f \in DOMAIN fibers : EnqueueUpdate(1, f, HighExpirationTime, "null", MaxUpdates)
    \/ ProcessUpdateQueue(1)
    \/ \E p \in Positions : CommitRoot(p)
    \/ BeginWork(1) /\ PushHostContainer(WorkInProgressOf(1), HostValue("htmlContainer"))
    \/ BeginWork(2) /\ PushHostContext(WorkInProgressOf(2))
    \/ phase[2] = "render" /\ PopHostContext(WorkInProgressOf(2))
    \/ phase[1] = "render" /\ PopHostContainer(WorkInProgressOf(1))

SpecMode == InitMode /\ [][NextMode]_vars

\* ------------------------------------------------ updates of every kind
\* The updates a caller schedules: an updater function at either expiration time,
\* and at the lower one a partial state with a key of its own, null, a function
\* that returns undefined and a forced rerender.
UpdateKinds ==
    { [tag |-> UpdateState, payload |-> AppendPayload("A"), expirationTime |-> e] :
         e \in ExpirationTimes } \cup
    { [tag |-> UpdateState, expirationTime |-> LowExpirationTime,
       payload |-> ValuePayload(JSObject([t \in {"t"} |-> <<"B">>]))],
      [tag |-> UpdateState, expirationTime |-> LowExpirationTime,
       payload |-> ValuePayload(JSNull)],
      [tag |-> UpdateState, expirationTime |-> LowExpirationTime,
       payload |-> [fn |-> "const", v |-> JSUndefined, letter |-> ""]],
      [tag |-> ForceUpdate, expirationTime |-> LowExpirationTime,
       payload |-> ValuePayload(JSNull)] }

\* A pass can run at an expiration time above that of every update.
RenderTimes == ExpirationTimes \cup {HighExpirationTime + 1}

\* A caller's setState or forceUpdate on the current fiber.
ScheduleUpdate(p, kind) ==
    /\ ~hung
    /\ Len(updates) < MaxUpdates
    /\ LET update == Len(updates) + 1
           rec == NewUpdate(kind.expirationTime, kind.tag, kind.payload, "null")
           h0 == [Heap EXCEPT !.u = Append(@, rec)]
       IN Install(enqueueUpdate(h0, current[p], update))
    /\ callCount' = Append(callCount, 0)
    /\ created' = Append(created, [via |-> "enqueueUpdate", callback |-> "null",
                                   pass |-> "none"])
    /\ lastOp' = Op("enqueueUpdate", p)
    /\ UNCHANGED <<current, phase, nextRenderExpirationTime, hasForceUpdate,
                   passApplied, consumed, abandoned, hung, host, dom, diag>>

\* SpecProcess: one tree position; updates of every kind are scheduled before the
\* first pass; a pass runs at any of three expiration times: its work-in-progress
\* is marked with effects, takes capture updates, is processed once and committed.
NextProcess ==
    \/ \E kind \in UpdateKinds : Len(fibers) = 1 /\ ScheduleUpdate(1, kind)
    \/ \E e \in RenderTimes : StartPass(1, e)
    \/ lastOp.op = "createWorkInProgress"
          /\ CompleteUnitOfWork(1, {ShouldCapture, Placement}, current[1])
    \/ \E e \in ExpirationTimes :
          lastOp.op # "processUpdateQueue" /\ EnqueueCapturedUpdate(1, e, "null")
    \/ lastOp.op # "processUpdateQueue" /\ ProcessUpdateQueue(1)
    \/ lastOp.op = "processUpdateQueue" /\ CommitRoot(1)

SpecProcess == Init /\ [][NextProcess]_vars

\* ---------------------------------------------------- reading the heap
\* The records reachable from `first` by next links, in order (a chain longer
\* than the heap is cut: it is cyclic).
RECURSIVE ChainFrom(_, _, _)
ChainFrom(uh, first, fuel) ==
    IF first = NULL \/ fuel = 0 THEN <<>>
    ELSE <<first>> \o ChainFrom(uh, uh[first].next, fuel - 1)

NormalListIn(uh, qh, q) == ChainFrom(uh, qh[q].firstUpdate, Len(uh) + 1)
CapturedListIn(uh, qh, q) == ChainFrom(uh, qh[q].firstCapturedUpdate, Len(uh) + 1)
NormalList(q) == NormalListIn(updates, queues, q)
CapturedList(q) == CapturedListIn(updates, queues, q)

Count(x, seq) == Cardinality({i \in DOMAIN seq : seq[i] = x})
NoDuplicates(seq) == \A i, j \in DOMAIN seq : seq[i] = seq[j] => i = j
Ascending(seq) == \A i, j \in DOMAIN seq : i < j => seq[i] < seq[j]

Enqueued == {u \in DOMAIN created : created[u].via = "enqueueUpdate"}
Captured == {u \in DOMAIN created : created[u].via = "enqueueCapturedUpdate"}
AllUpdates == [u \in DOMAIN updates |-> u]
UpdateOfLetter(l) == CHOOSE u \in DOMAIN Letters : Letters[u] = l
UpdatesOfText(text) == [i \in DOMAIN text |-> UpdateOfLetter(text[i])]

\* The state after applying the updates of `seq`, in order, to `base`.
RECURSIVE FoldUpdates(_, _)
FoldUpdates(seq, base) ==
    IF seq = <<>> THEN base
    ELSE FoldUpdates(Tail(seq),
                     getStateFromUpdate(PassLocals(Heap, base), 1, NULL, Head(seq),
                                        base, "props", "instance").resultState)

LiveQueueIds == LiveQueues(fibers)
Processed == lastOp.op = "processUpdateQueue" /\ ~hung
LastWorkInProgress == WorkInProgressOf(lastOp.p)

\* ------------------------------------------------------------- claims

\* C1: once a processUpdateQueue pass runs at an expiration time that qualifies
\* every update scheduled by enqueueUpdate, the memoizedState of the work-in-progress
\* is the fold of all those updates, in enqueue order, over the original base state,
\* whatever partial passes, abandoned passes and commits came before.
C1_Deterministic ==
    (/\ Processed
     /\ \A u \in DOMAIN updates :
            updates[u].expirationTime >= lastOp.renderExpirationTime)
    => fibers[LastWorkInProgress].memoizedState = FoldUpdates(AllUpdates, InitialState)

\* A full pass after a partial pass was committed: current holds "B" (A was skipped),
\* the work-in-progress holds "AB".
C1_Witness ==
    /\ Processed
    /\ Len(updates) >= 2
    /\ updates[1].expirationTime = LowExpirationTime
    /\ updates[2].expirationTime = HighExpirationTime
    /\ lastOp.renderExpirationTime = LowExpirationTime
    /\ TextOf(fibers[current[1]].memoizedState) = <<"B">>
    /\ TextOf(fibers[LastWorkInProgress].memoizedState) = <<"A", "B">>

\* C2: the example A1 - B2 - C1 - D2 of the file header, priority 1 being the more
\* urgent one (the larger expiration time).  From base state "" the pass at priority 1
\* gives memoizedState "AC", remaining priority 2, baseState "A" and the pending list
\* B, C, D; the pass at priority 2 from that queue gives "ABCD".
ExpirationTimeOfPriority(n) == IF n = 1 THEN HighExpirationTime ELSE LowExpirationTime
ExamplePriorities == <<1, 2, 1, 2>>
ExampleScheduled ==
    /\ Len(updates) = Len(ExamplePriorities)
    /\ \A u \in DOMAIN updates :
          updates[u].expirationTime = ExpirationTimeOfPriority(ExamplePriorities[u])

C2_Step(p) ==
    LET workInProgress == WorkInProgressOf(p)
        q == fibers[workInProgress].updateQueue
        q2 == fibers'[workInProgress].updateQueue
    IN (/\ ExampleScheduled
        /\ phase[p] = "render"
        /\ q # NULL
        /\ lastOp'.op = "processUpdateQueue" /\ lastOp'.p = p /\ ~hung')
       =>
       /\ (/\ queues[q].baseState = StateOf(<<>>)
           /\ NormalList(q) = <<1, 2, 3, 4>>
           /\ lastOp'.renderExpirationTime = ExpirationTimeOfPriority(1))
          => /\ fibers'[workInProgress].memoizedState = StateOf(<<"A", "C">>)
             /\ fibers'[workInProgress].expirationTime = ExpirationTimeOfPriority(2)
             /\ queues'[q2].baseState = StateOf(<<"A">>)
             /\ NormalListIn(updates', queues', q2) = <<2, 3, 4>>
       /\ (/\ queues[q].baseState = StateOf(<<"A">>)
           /\ NormalList(q) = <<2, 3, 4>>
           /\ lastOp'.renderExpirationTime = ExpirationTimeOfPriority(2))
          => fibers'[workInProgress].memoizedState = StateOf(<<"A", "B", "C", "D">>)

C2_HeaderExample == [][\A p \in Positions : C2_Step(p)]_vars

\* The second pass of the example has run on the queue the first pass left and
\* that was committed: current holds "AC", the work-in-progress "ABCD".
C2_Witness ==
    /\ ExampleScheduled
    /\ Processed
    /\ lastOp.renderExpirationTime = ExpirationTimeOfPriority(2)
    /\ fibers[current[1]].memoizedState = StateOf(<<"A", "C">>)
    /\ fibers[current[1]].expirationTime = ExpirationTimeOfPriority(2)
    /\ fibers[LastWorkInProgress].memoizedState = StateOf(<<"A", "B", "C", "D">>)

\* C3: an update passed once to enqueueUpdate, on the current fiber or on its
\* alternate, in or outside a pass, is never dropped: until a pass that applied it
\* has been committed it occurs exactly once in the pending list of the current
\* fiber's queue, from which every later work-in-progress queue is derived, and
\* exactly once in the pending list of the work-in-progress queue of a pass that
\* has not applied it; no pending list holds it twice.
QueueOf(fiber) == fibers[fiber].updateQueue
PendingOf(fiber) == IF QueueOf(fiber) = NULL THEN <<>> ELSE NormalList(QueueOf(fiber))

C3_NeverDropped ==
    \A p \in Positions : \A u \in Enqueued :
        /\ u \notin consumed => Count(u, PendingOf(current[p])) = 1
        /\ (phase[p] = "render" /\ u \notin consumed \cup passApplied)
              => Count(u, PendingOf(WorkInProgressOf(p))) = 1
        /\ Count(u, PendingOf(current[p])) <= 1
        /\ WorkInProgressOf(p) # NULL => Count(u, PendingOf(WorkInProgressOf(p))) <= 1

\* Update 1 was skipped by a pass that was committed (the two fibers have swapped),
\* and the work-in-progress derived after the commit holds it once.
C3_Witness ==
    /\ lastOp.op = "createWorkInProgress" /\ lastOp.reused
    /\ current[1] = 2
    /\ 1 \in Enqueued /\ 1 \notin consumed
    /\ 2 \in consumed
    /\ Count(1, PendingOf(WorkInProgressOf(1))) = 1

\* C4: the callback of an update is invoked exactly once, by commitUpdateQueue alone
\* and never by processUpdateQueue: no callback is ever invoked twice, a callback is
\* invoked only for an update that a committed pass applied, and it has been invoked
\* once when such a pass has been committed, however many passes that applied the
\* update were abandoned before.  The invocation counts change in no step other than
\* a commit.  (A commit that never returns has committed nothing.)
C4_State ==
    \A u \in DOMAIN updates :
        /\ callCount[u] <= 1
        /\ created[u].callback = "null" => callCount[u] = 0
        /\ (u \in consumed /\ created[u].callback = "fn") => callCount[u] = 1
        /\ (callCount[u] = 1 /\ ~hung) => u \in consumed

C4_Step ==
    (\E u \in DOMAIN callCount : callCount'[u] # callCount[u])
        => lastOp'.op = "commitUpdateQueue"

C4_CallbackOnce == [](C4_State) /\ [][C4_Step]_vars

\* Update 1 carries a callback, three passes that had applied it were abandoned, the
\* fourth was committed, and the callback has been invoked once.
C4_Witness ==
    /\ lastOp.op = "commitUpdateQueue" /\ ~hung
    /\ abandoned = 3
    /\ 1 \in consumed
    /\ created[1].callback = "fn"
    /\ callCount[1] = 1

\* C5: in every state, a fiber that has an alternate is the alternate of its
\* alternate and has the tag of its alternate; a fiber never has more than one
\* alternate: the alternate link, once set, is never changed by a later
\* createWorkInProgress, an abandoned pass or a commit.
C5_State ==
    \A n \in DOMAIN fibers :
        fibers[n].alternate # NULL =>
            /\ fibers[n].alternate \in DOMAIN fibers
            /\ fibers[n].alternate # n
            /\ fibers[fibers[n].alternate].alternate = n
            /\ fibers[fibers[n].alternate].tag = fibers[n].tag

C5_Step ==
    \A n \in DOMAIN fibers :
        /\ n \in DOMAIN fibers'
        /\ fibers'[n].tag = fibers[n].tag
        /\ fibers[n].alternate # NULL => fibers'[n].alternate = fibers[n].alternate

C5_AlternateSymmetry == [](C5_State) /\ [][C5_Step]_vars

\* Both positions have their alternate, the first position has committed (its fibers
\* have swapped) and createWorkInProgress has just reused the former current fiber.
C5_Witness ==
    /\ lastOp.op = "createWorkInProgress" /\ lastOp.p = 1 /\ lastOp.reused
    /\ Len(fibers) = 4
    /\ current[1] # 1
    /\ fibers[current[1]].alternate = 1
    /\ fibers[1].tag # fibers[2].tag

\* C6: createWorkInProgress on a current fiber that has an alternate returns the
\* alternate with effectTag NoEffect and with nextEffect, firstEffect and lastEffect
\* null, whatever the pass that was discarded had left in these fields.
C6_Step(p) ==
    (/\ lastOp'.op = "createWorkInProgress" /\ lastOp'.p = p
     /\ WorkInProgressOf(p) # NULL)
    => /\ fibers'[current[p]].alternate = WorkInProgressOf(p)
       /\ fibers'[WorkInProgressOf(p)].effectTag = NoEffect
       /\ fibers'[WorkInProgressOf(p)].nextEffect = NULL
       /\ fibers'[WorkInProgressOf(p)].firstEffect = NULL
       /\ fibers'[WorkInProgressOf(p)].lastEffect = NULL

C6_AbandonedPassClean == [][\A p \in Positions : C6_Step(p)]_vars

\* The pass that was discarded had set the effect tag and the three effect-list
\* pointers of the alternate; the alternate obtained again has none of them.
C6_Witness ==
    /\ lastOp.op = "createWorkInProgress" /\ lastOp.reused /\ lastOp.stale
    /\ ~HasEffects(WorkInProgressOf(lastOp.p))
    /\ fibers[WorkInProgressOf(lastOp.p)].effectTag = NoEffect

\* C7: no processUpdateQueue pass applies an update twice, and no update occurs
\* twice among the records reachable from firstUpdate in any queue, in particular
\* in the finished queue after commitUpdateQueue has spliced the captured list onto
\* the normal list.
C7_AppliedOnce ==
    /\ Processed => NoDuplicates(lastOp.applied)
    /\ \A q \in LiveQueueIds : NoDuplicates(NormalList(q))

\* A commit has spliced a skipped captured update behind a pending normal update.
C7_Witness ==
    /\ lastOp.op = "commitUpdateQueue" /\ ~hung
    /\ \E u \in Captured :
          /\ Len(PendingOf(current[lastOp.p])) >= 2
          /\ PendingOf(current[lastOp.p])[Len(PendingOf(current[lastOp.p]))] = u
          /\ PendingOf(current[lastOp.p])[1] \in Enqueued

\* C8: processUpdateQueue never reorders.  The updates a pass applies are the
\* qualifying updates of the normal list followed by those of the captured list, each
\* in list order, the updates scheduled by enqueueUpdate among them in enqueue order;
\* after the pass the normal list is the suffix of the list before the pass that
\* starts at the first skipped update, or is empty when none was skipped.
Qualifies(u, renderExpirationTime) ==
    ~(updates[u].expirationTime < renderExpirationTime)

SuffixFromFirstSkipped(list, renderExpirationTime) ==
    LET skipped == {i \in DOMAIN list : ~Qualifies(list[i], renderExpirationTime)}
    IN IF skipped = {} THEN <<>>
       ELSE SubSeq(list, CHOOSE i \in skipped : \A j \in skipped : i <= j, Len(list))

C8_Step(p) ==
    LET workInProgress == WorkInProgressOf(p)
        q == fibers[workInProgress].updateQueue
        q2 == fibers'[workInProgress].updateQueue
        r == lastOp'.renderExpirationTime
    IN (/\ phase[p] = "render"
        /\ q # NULL
        /\ lastOp'.op = "processUpdateQueue" /\ lastOp'.p = p /\ ~hung')
       =>
       /\ lastOp'.applied =
             SelectSeq(NormalList(q), LAMBDA u : Qualifies(u, r))
             \o SelectSeq(CapturedList(q), LAMBDA u : Qualifies(u, r))
       /\ Ascending(SelectSeq(lastOp'.applied, LAMBDA u : u \in Enqueued))
       /\ NormalListIn(updates', queues', q2) = SuffixFromFirstSkipped(NormalList(q), r)

C8_NeverReorders == [][\A p \in Positions : C8_Step(p)]_vars

\* A pass has skipped update 1 and applied update 2: both stay pending, in order.
C8_Witness ==
    /\ Processed
    /\ lastOp.applied = <<2>>
    /\ PendingOf(LastWorkInProgress) = <<1, 2>>
    /\ PendingOf(current[lastOp.p]) = <<1, 2>>

Abandoned == {u \in DOMAIN created : created[u].pass = "abandoned"}

C10_State ==
    \A u \in Abandoned :
        /\ \A q \in LiveQueueIds :
              Count(u, NormalList(q)) = 0 /\ Count(u, CapturedList(q)) = 0
        /\ Processed => Count(u, lastOp.applied) = 0

C10_Step(p) ==
    LET cur == current[p]
        workInProgress == WorkInProgressOf(p)
        u == Len(updates) + 1
        q == fibers[cur].updateQueue
        q2 == fibers'[workInProgress].updateQueue
    IN (lastOp'.op = "enqueueCapturedUpdate" /\ lastOp'.p = p)
       =>
       /\ fibers'[cur] = fibers[cur]
       /\ q # NULL =>
             /\ queues'[q] = queues[q]
             /\ NormalListIn(updates', queues', q) = NormalList(q)
             /\ CapturedListIn(updates', queues', q) = CapturedList(q)
       /\ q2 # NULL /\ q2 # q
       /\ queues'[q2].lastCapturedUpdate = u
       /\ Count(u, CapturedListIn(updates', queues', q2)) = 1
       /\ \A other \in LiveQueues(fibers') :
             /\ Count(u, NormalListIn(updates', queues', other)) = 0
             /\ other # q2 => Count(u, CapturedListIn(updates', queues', other)) = 0

C10_CapturedStaysInPass == [](C10_State) /\ [][\A p \in Positions : C10_Step(p)]_vars

\* Update 1 was captured in a pass that had a queue of its own and was abandoned; a
\* pass derived again from current has applied update 2 and not update 1.
C10_Witness ==
    /\ Processed
    /\ 1 \in Abandoned
    /\ lastOp.applied = <<2>>
    /\ created[2].via = "enqueueUpdate"

\* C11: after commitUpdateQueue every update that processUpdateQueue had skipped and
\* left in the captured list of the finished queue is reachable from firstUpdate of that queue, behind every update
\* that was in its normal list; none is lost, also when the pass had processed the
\* whole normal list.
IndexIn(seq, x) == CHOOSE i \in DOMAIN seq : seq[i] = x

C11_Step(p) ==
    LET finishedWork == WorkInProgressOf(p)
        q == fibers[finishedWork].updateQueue
        before == NormalList(q)
        captured == CapturedList(q)
        after == NormalListIn(updates', queues', q)
    IN (/\ phase[p] = "render"
        /\ q # NULL
        /\ Processed /\ lastOp.p = p
        /\ lastOp'.op = "commitUpdateQueue" /\ lastOp'.p = p /\ ~hung')
       => \A i \in DOMAIN captured :
             /\ Count(captured[i], after) = 1
             /\ \A j \in DOMAIN before :
                   /\ Count(before[j], after) = 1
                   /\ IndexIn(after, before[j]) < IndexIn(after, captured[i])

C11_CapturedKept == [][\A p \in Positions : C11_Step(p)]_vars

\* The same, for a finished queue whose lastUpdate is not null.
C11_StepWithLastUpdate(p) ==
    queues[fibers[WorkInProgressOf(p)].updateQueue].lastUpdate # NULL => C11_Step(p)

C11_CapturedKeptBehindPending ==
    [][\A p \in Positions :
          (phase[p] = "render" /\ fibers[WorkInProgressOf(p)].updateQueue # NULL)
              => C11_StepWithLastUpdate(p)]_vars

\* C12: a commitUpdateQueue that returns has invoked the callbacks of the normal
\* effect list in list order, then those of the captured effect list in list order,
\* each once and with the instance as receiver, and leaves firstEffect, lastEffect,
\* firstCapturedEffect, lastCapturedEffect, firstCapturedUpdate and
\* lastCapturedUpdate of the finished queue null.
RECURSIVE EffectChainFrom(_, _, _)
EffectChainFrom(uh, first, fuel) ==
    IF first = NULL \/ fuel = 0 THEN <<>>
    ELSE <<first>> \o EffectChainFrom(uh, uh[first].nextEffect, fuel - 1)

EffectList(q) == EffectChainFrom(updates, queues[q].firstEffect, Len(updates) + 1)
CapturedEffectList(q) ==
    EffectChainFrom(updates, queues[q].firstCapturedEffect, Len(updates) + 1)
WithCallback(list) == SelectSeq(list, LAMBDA u : updates[u].callback # "null")

\* The callbacks a commit of queue q is to invoke, in order.
CallbacksOf(q) == WithCallback(EffectList(q)) \o WithCallback(CapturedEffectList(q))

Committed(p) == lastOp'.op = "commitUpdateQueue" /\ lastOp'.p = p /\ ~hung'

C12_Step(p) ==
    LET q == fibers[WorkInProgressOf(p)].updateQueue
    IN (/\ phase[p] = "render"
        /\ q # NULL
        /\ Committed(p) /\ lastOp'.error = NoError)
       =>
       /\ lastOp'.called = CallbacksOf(q)
       /\ NoDuplicates(lastOp'.called)
       /\ lastOp'.receivers = [i \in DOMAIN lastOp'.called |-> "instance"]
       /\ \A u \in DOMAIN callCount :
             callCount'[u] = callCount[u] + Count(u, CallbacksOf(q))
       /\ queues'[q].firstEffect = NULL
       /\ queues'[q].lastEffect = NULL
       /\ queues'[q].firstCapturedEffect = NULL
       /\ queues'[q].lastCapturedEffect = NULL
       /\ queues'[q].firstCapturedUpdate = NULL
       /\ queues'[q].lastCapturedUpdate = NULL

C12_CommitOrder == [][\A p \in Positions : C12_Step(p)]_vars

\* A commit has invoked the callback of update 1, from the normal effect list, and
\* then that of update 2, from the captured effect list.
C12_Witness ==
    /\ lastOp.op = "commitUpdateQueue" /\ ~hung /\ lastOp.error = NoError
    /\ lastOp.called = <<1, 2>>
    /\ lastOp.receivers = <<"instance", "instance">>
    /\ 1 \in Enqueued /\ 2 \in Captured
    /\ callCount = <<1, 1>>

\* C16: commitUpdateQueue throws the invariant error of callCallback when an update
\* on an effect list carries a callback that is neither null nor a function: that
\* callback is not invoked, and no callback behind it in the effect lists is invoked
\* by that commit.
FirstNotCallable(list) ==
    LET bad == {i \in DOMAIN list : updates[list[i]].callback \notin {"null", "fn"}}
    IN IF bad = {} THEN 0 ELSE CHOOSE i \in bad : \A j \in bad : i <= j

C16_Step(p) ==
    LET q == fibers[WorkInProgressOf(p)].updateQueue
        list == CallbacksOf(q)
        k == FirstNotCallable(list)
    IN (/\ phase[p] = "render"
        /\ q # NULL
        /\ Committed(p)
        /\ k # 0)
       =>
       /\ lastOp'.error = InvalidCallback
       /\ lastOp'.called = SubSeq(list, 1, k - 1)
       /\ \A i \in k..Len(list) :
             /\ Count(list[i], lastOp'.called) = 0
             /\ callCount'[list[i]] = callCount[list[i]]

C16_InvalidCallback == [][\A p \in Positions : C16_Step(p)]_vars

\* A commit has thrown on the callback of update 1, which is not a function; the
\* callback of update 2 behind it, a function, has not been invoked.
C16_Witness ==
    /\ lastOp.op = "commitUpdateQueue" /\ lastOp.error = InvalidCallback
    /\ lastOp.called = <<>>
    /\ Len(updates) = 2
    /\ created[1].callback = "notFunction" /\ created[2].callback = "fn"
    /\ {1, 2} \subseteq passApplied
    /\ callCount = <<0, 0>>

\* C13: processUpdateQueue and enqueueCapturedUpdate on a work-in-progress that has
\* an alternate change neither memoizedState nor expirationTime of the current
\* fiber, nor any field of the queue object of the current fiber (baseState,
\* firstUpdate, lastUpdate, the captured-list and the effect-list pointers), and the
\* current fiber keeps that queue object: a queue shared with the alternate is
\* cloned before it is written.
C13_Step(p) ==
    LET cur == current[p]
        q == fibers[cur].updateQueue
    IN (/\ lastOp'.op \in {"processUpdateQueue", "enqueueCapturedUpdate"}
        /\ lastOp'.p = p)
       =>
       /\ fibers'[cur].memoizedState = fibers[cur].memoizedState
       /\ fibers'[cur].expirationTime = fibers[cur].expirationTime
       /\ fibers'[cur].updateQueue = q
       /\ q # NULL => queues'[q] = queues[q]
       /\ SharesQueue(p) => fibers'[WorkInProgressOf(p)].updateQueue # q

C13_CurrentUntouched == [][\A p \in Positions : C13_Step(p)]_vars

\* processUpdateQueue has applied update 1 in a pass that started on the queue object
\* of the current fiber: the work-in-progress has a queue of its own and the new
\* state, the queue of the current fiber still holds update 1.
C13_Witness ==
    /\ Processed
    /\ lastOp.applied = <<1>>
    /\ QueueOf(LastWorkInProgress) # QueueOf(current[lastOp.p])
    /\ queues[QueueOf(current[lastOp.p])].firstUpdate = 1
    /\ queues[QueueOf(LastWorkInProgress)].firstUpdate = NULL
    /\ fibers[current[lastOp.p]].memoizedState = InitialState
    /\ fibers[LastWorkInProgress].memoizedState = StateOf(<<"A">>)

\* C14: over any sequence of createWorkInProgress calls, abandoned passes and commits,
\* a tree position has at most two nodes, its current fiber and that fiber's
\* alternate, of which createWorkInProgress has allocated at most one: a call on a
\* current fiber that has an alternate allocates no node and returns that alternate,
\* and only a call on a current fiber without alternate allocates one.
NodesOf(p) == {current[p], WorkInProgressOf(p)} \ {NULL}

C14_State ==
    /\ \A n \in DOMAIN fibers : \E p \in Positions : n \in NodesOf(p)
    /\ \A p \in Positions : Cardinality(NodesOf(p)) <= 2
    /\ Len(fibers) <= 2 * Len(current)

C14_Step(p) ==
    (lastOp'.op = "createWorkInProgress" /\ lastOp'.p = p)
    => IF WorkInProgressOf(p) # NULL
       THEN /\ Len(fibers') = Len(fibers)
            /\ fibers'[current[p]].alternate = WorkInProgressOf(p)
       ELSE /\ Len(fibers') = Len(fibers) + 1
            /\ fibers'[current[p]].alternate = Len(fibers')

C14_OneAllocation == [](C14_State) /\ [][\A p \in Positions : C14_Step(p)]_vars

\* A position whose fibers have swapped in a commit has abandoned a pass that carried
\* effects and started again: the call has reused the alternate, and both positions
\* have two nodes.
C14_Witness ==
    /\ lastOp.op = "createWorkInProgress" /\ lastOp.reused /\ lastOp.stale
    /\ current[lastOp.p] # lastOp.p
    /\ Len(fibers) = 2 * Len(current)

\* C15: createWorkInProgress is idempotent and leaves committed state alone: a second
\* call with the same current fiber and the same pending props, made right after a
\* call, returns the same node and leaves every fiber as the first call left it; and
\* no call changes a field of the current fiber other than its alternate link, which
\* only a call on a fiber without alternate sets.
C15_Step(p) ==
    LET cur == current[p]
        workInProgress == fibers'[cur].alternate
        again == createWorkInProgress([f |-> fibers', q |-> queues', u |-> updates'],
                                      cur, fibers'[workInProgress].pendingProps,
                                      nextRenderExpirationTime'[p])
    IN (lastOp'.op = "createWorkInProgress" /\ lastOp'.p = p)
       =>
       /\ workInProgress # NULL
       /\ again.f[cur].alternate = workInProgress
       /\ again.f = fibers'
       /\ fibers'[cur] = [fibers[cur] EXCEPT !.alternate = workInProgress]
       /\ fibers[cur].alternate # NULL => fibers'[cur] = fibers[cur]

C15_Idempotent == [][\A p \in Positions : C15_Step(p)]_vars

\* A pass with other pending props than those of the current fiber, and that carried
\* effects, was abandoned; createWorkInProgress has returned the alternate again and
\* the current fiber, not yet replaced by a commit, has its props.
C15_Witness ==
    /\ lastOp.op = "createWorkInProgress" /\ lastOp.reused /\ lastOp.stale
    /\ current[lastOp.p] = lastOp.p
    /\ fibers[current[lastOp.p]].pendingProps = "props"
    /\ fibers[WorkInProgressOf(lastOp.p)].pendingProps = "props2"

\* C17: popHostContext(fiber) and popHostContainer(fiber) pop only when the fiber on
\* top of the stack of providing fibers is the given fiber; called with another fiber,
\* in particular one that never pushed, each leaves the three stacks as they are.
C17_Step(names) ==
    (/\ host'.op \in names
     /\ host.contextFiberStackCursor.current # FiberRef(host'.fiber))
    => Cursors(host') = Cursors(host)

C17_PopsOnlyOwner == [][C17_Step({"popHostContext", "popHostContainer"})]_vars

\* The same for popHostContext alone.
C17_PopHostContextOnlyOwner == [][C17_Step({"popHostContext"})]_vars

\* C18: getHostContext, getRootHostContainer and pushHostContext throw the invariant
\* error of requiredContext whenever a stack they read is empty, as it is while no
\* pushHostContainer is outstanding: getHostContext with an empty stack of contexts,
\* getRootHostContainer with an empty stack of containers, pushHostContext with
\* either of them empty; and pushHostContext then pushes nothing.
C18_Step ==
    /\ (host'.op = "getHostContext" /\ Depth(host.contextStackCursor) = 0)
          => host'.error = MissingHostContext /\ host'.result = NoResult
    /\ (host'.op = "getRootHostContainer" /\ Depth(host.rootInstanceStackCursor) = 0)
          => host'.error = MissingHostContext /\ host'.result = NoResult
    /\ (/\ host'.op = "pushHostContext"
        /\ \/ Depth(host.rootInstanceStackCursor) = 0
           \/ Depth(host.contextStackCursor) = 0)
          => host'.error = MissingHostContext /\ Cursors(host') = Cursors(host)

C18_MissingHostContext == [][C18_Step]_vars

\* pushHostContext was called for the svg fiber, whose context would differ from any
\* html context, while the stacks were empty: it has thrown and the stacks are empty.
C18_Witness ==
    /\ host.op = "pushHostContext"
    /\ host.fiber # NULL /\ fibers[host.fiber].type = "svg"
    /\ host.error = MissingHostContext
    /\ Cursors(host) = Cursors(HostInit)

\* The type values createFiberFromTypeAndProps is documented to accept: functions,
\* strings, the five structural markers and objects tagged as one of five kinds.
C19_Accepted(type) ==
    \/ type.typeof \in {"function", "string"}
    \/ type \in {ReactSymbols.REACT_FRAGMENT_TYPE, ReactSymbols.REACT_CONCURRENT_MODE_TYPE, ReactSymbols.REACT_STRICT_MODE_TYPE,
                 ReactSymbols.REACT_PROFILER_TYPE, ReactSymbols.REACT_SUSPENSE_TYPE}
    \/ /\ type.typeof = "object"
       /\ ~type.isNull
       /\ type.tagged \in {ReactSymbols.REACT_PROVIDER_TYPE.name, ReactSymbols.REACT_CONTEXT_TYPE.name,
                           ReactSymbols.REACT_FORWARD_REF_TYPE.name, ReactSymbols.REACT_MEMO_TYPE.name,
                           ReactSymbols.REACT_LAZY_TYPE.name}

C19_Step ==
    lastOp'.op = "createFiberFromTypeAndProps" =>
        IF C19_Accepted(lastOp'.arg)
        THEN /\ lastOp'.error = NoError
             /\ lastOp'.p = Len(fibers) + 1
             /\ Len(fibers') = Len(fibers) + 1
             /\ SubSeq(fibers', 1, Len(fibers)) = fibers
        ELSE /\ lastOp'.error = InvalidElementType
             /\ lastOp'.p = NULL
             /\ fibers' = fibers

\* C19: createFiberFromTypeAndProps throws the invariant error "Element type is
\* invalid" and returns no node (the heap of fibers is left as it was) for every type
\* that is not a function, a string, one of the markers fragment, concurrent mode,
\* strict mode, profiler, suspense, or an object tagged provider, context,
\* forward-ref, memo or lazy; for every other type it returns a new node and no error.
C19_InvalidElementType == [][C19_Step]_vars

\* An element whose type is itself an element object has been refused.
C19_Witness ==
    /\ lastOp.op = "createFiberFromTypeAndProps"
    /\ lastOp.arg = TaggedObject(ReactSymbols.REACT_ELEMENT_TYPE.name)
    /\ lastOp.error = InvalidElementType
    /\ lastOp.p = NULL
    /\ Len(fibers) = 1

C20_Step == \A n \in DOMAIN fibers : fibers'[n].mode = fibers[n].mode

C20_AlternateMode ==
    \A n \in DOMAIN fibers :
        fibers[n].alternate # NULL => fibers[fibers[n].alternate].mode = fibers[n].mode

\* C20: the mode of a fiber is fixed when the fiber is created: no step of
\* createWorkInProgress (creating or reusing the alternate), enqueueUpdate,
\* processUpdateQueue, commitUpdateQueue or of the host context pushes and pops
\* changes the mode of a fiber that exists, and a fiber and its alternate have the
\* same mode in every state.
C20_ModeFixed == []C20_AlternateMode /\ [][C20_Step]_vars

\* The strict-mode fiber has been given an alternate, committed, and its alternate
\* reused by a later pass, with updates processed and host context pushed meanwhile.
C20_Witness ==
    /\ lastOp.op = "createWorkInProgress" /\ lastOp.reused /\ lastOp.p = 2
    /\ fibers[current[2]].mode = {TypeOfMode.StrictMode}
    /\ fibers[WorkInProgressOf(2)].mode = {TypeOfMode.StrictMode}
    /\ fibers[current[1]].mode = TypeOfMode.NoContext
    /\ fibers[current[1]].alternate # NULL
    /\ consumed # {}
    /\ Depth(host.contextStackCursor) > 0

\* The queue of a node created by the step: fresh from the node's memoizedState, or
\* a clone of the queue the other node had.
C23_Created(n, u) ==
    LET other == fibers[n].alternate
        q == fibers'[n].updateQueue
    IN IF other # NULL /\ fibers[other].updateQueue # NULL
       THEN /\ queues'[q].baseState = queues[fibers[other].updateQueue].baseState
            /\ NormalListIn(updates', queues', q)
                  = Append(NormalList(fibers[other].updateQueue), u)
       ELSE /\ queues'[q].baseState = fibers[n].memoizedState
            /\ NormalListIn(updates', queues', q) = <<u>>

C23_Step(p) ==
    (lastOp'.op = "enqueueUpdate" /\ lastOp'.p = p) =>
        LET u == Len(updates')
        IN \A n \in NodesOf(p) :
              LET q == fibers'[n].updateQueue
                  list == IF q = NULL THEN <<>> ELSE NormalListIn(updates', queues', q)
              IN /\ q # NULL
                 /\ queues'[q].lastUpdate = u
                 /\ list # <<>>
                 /\ list[Len(list)] = u
                 /\ Count(u, list) = 1
                 /\ fibers[n].updateQueue = NULL => C23_Created(n, u)

\* C23: when enqueueUpdate(fiber, u) has returned, the fiber has a queue, its
\* alternate has one if there is an alternate, and in each of them lastUpdate is u
\* and u is the last record of the list that starts at firstUpdate, in which it
\* occurs once; a queue the call created has the memoizedState of its node as
\* baseState, or is a clone of the queue of the other node.
C23_EnqueueAppends == [][\A p \in Positions : C23_Step(p)]_vars

\* Both nodes had a queue of their own, both lists were pending, and the update was
\* appended behind them.
C23_Witness ==
    /\ lastOp.op = "enqueueUpdate"
    /\ WorkInProgressOf(1) # NULL
    /\ QueueOf(current[1]) # QueueOf(WorkInProgressOf(1))
    /\ Len(PendingOf(current[1])) = 2
    /\ Len(PendingOf(WorkInProgressOf(1))) = 2

\* The two lastUpdate pointers of a pair of distinct queues refer to one record.
C24_SameTail ==
    \A n \in DOMAIN fibers :
        LET a == fibers[n].alternate
        IN (/\ a # NULL
            /\ QueueOf(n) # NULL /\ QueueOf(a) # NULL
            /\ QueueOf(n) # QueueOf(a)
            /\ queues[QueueOf(n)].lastUpdate # NULL
            /\ queues[QueueOf(a)].lastUpdate # NULL)
           => queues[QueueOf(n)].lastUpdate = queues[QueueOf(a)].lastUpdate

C24_Step(p) ==
    (/\ C24_SameTail
     /\ Processed /\ lastOp.p = p
     /\ lastOp'.op = "commitUpdateQueue" /\ lastOp'.p = p /\ ~hung')
    => C24_SameTail'

\* C24: whenever a node and its alternate own distinct queue objects that both have
\* a lastUpdate, the two lastUpdate pointers refer to the same update record; in
\* particular a commitUpdateQueue that follows processUpdateQueue keeps it so.
C24_TailsAgree == [][\A p \in Positions : C24_Step(p)]_vars

\* What a processUpdateQueue step of position 1 worked on: the lists of the queue
\* before the call, the base state, and the updates that qualify at the expiration
\* time of the pass.
ProcessStep == lastOp'.op = "processUpdateQueue" /\ lastOp'.p = 1 /\ ~hung'
PassQueue == fibers[WorkInProgressOf(1)].updateQueue
PassList == NormalList(PassQueue) \o CapturedList(PassQueue)
PassQualifies(u) == Qualifies(u, lastOp'.renderExpirationTime)
PassApplies == SelectSeq(PassList, PassQualifies)
PassSkips == {PassList[i] : i \in DOMAIN PassList} \ {PassApplies[i] : i \in DOMAIN PassApplies}

C25_Step ==
    ProcessStep =>
        /\ lastOp'.applied = PassApplies
        /\ fibers'[WorkInProgressOf(1)].memoizedState
              = FoldUpdates(PassApplies, queues[PassQueue].baseState)
        /\ fibers'[WorkInProgressOf(1)].expirationTime =
              IF PassSkips = {} THEN NoWork
              ELSE updates[CHOOSE u \in PassSkips : \A v \in PassSkips :
                              updates[v].expirationTime <= updates[u].expirationTime
                          ].expirationTime

\* C25: after processUpdateQueue the memoizedState of the work-in-progress is the
\* base state of the queue with exactly the updates that were not skipped applied,
\* those of the normal list first and those of the captured list after them, in list
\* order; its expirationTime is NoWork when no update of either list was skipped and
\* otherwise the largest expirationTime of a skipped update of either list.
C25_ResultAndRemainingTime == [][C25_Step]_vars

\* A pass above both expiration times has skipped an update of each.
C25_Witness ==
    /\ Processed
    /\ lastOp.renderExpirationTime = HighExpirationTime + 1
    /\ lastOp.applied = <<>>
    /\ \E u, v \in DOMAIN updates :
          /\ updates[u].expirationTime = LowExpirationTime
          /\ updates[v].expirationTime = HighExpirationTime
          /\ Count(u, PendingOf(LastWorkInProgress)) = 1
          /\ Count(v, PendingOf(LastWorkInProgress)) = 1
    /\ fibers[LastWorkInProgress].expirationTime = HighExpirationTime

\* The updates of a list before its first update that does not qualify.
PassPrefix(list) ==
    LET skipped == {i \in DOMAIN list : ~PassQualifies(list[i])}
    IN IF skipped = {} THEN list
       ELSE SubSeq(list, 1, (CHOOSE i \in skipped : \A j \in skipped : i <= j) - 1)

C26_Step ==
    ProcessStep =>
        LET normal == NormalList(PassQueue)
            captured == CapturedList(PassQueue)
            base == queues[PassQueue].baseState
            wip == fibers'[WorkInProgressOf(1)]
        IN queues'[wip.updateQueue].baseState =
              IF PassPrefix(normal) # normal THEN FoldUpdates(PassPrefix(normal), base)
              ELSE IF PassPrefix(captured) # captured
                   THEN FoldUpdates(normal \o PassPrefix(captured), base)
                   ELSE wip.memoizedState

\* C26: processUpdateQueue leaves in baseState the running result at the first
\* skipped update of the normal list when there is one, whatever happens in the
\* captured list; with no normal update skipped and a captured update skipped, the
\* running result at the first skipped captured update; and with nothing skipped the
\* final result.
C26_RebaseAtFirstSkip == [][C26_Step]_vars

\* A pass has applied an update of the normal list and skipped a captured one: the
\* base state is the result of the applied update.
C26_Witness ==
    /\ Processed
    /\ Len(lastOp.applied) = 1
    /\ updates[lastOp.applied[1]].tag # CaptureUpdate
    /\ TextOf(fibers[LastWorkInProgress].memoizedState) = "A"
    /\ LET q == fibers[LastWorkInProgress].updateQueue
       IN /\ queues[q].firstUpdate = NULL
          /\ queues[q].firstCapturedUpdate # NULL
          /\ queues[q].baseState = fibers[LastWorkInProgress].memoizedState

\* The partial state of an update: its payload, or what its payload returns.
PartialStateOf(u, prevState, nextProps) ==
    IF IsFunction(updates[u].payload)
    THEN CallPayload(updates[u].payload, prevState, nextProps)
    ELSE updates[u].payload.v

\* next is prev with the keys of partial written over it.
IsShallowMerge(next, prev, partial) ==
    /\ next.t = "object"
    /\ DOMAIN next.o = DOMAIN OwnProps(prev) \cup DOMAIN OwnProps(partial)
    /\ \A k \in DOMAIN OwnProps(partial) : next.o[k] = partial.o[k]
    /\ \A k \in DOMAIN OwnProps(prev) \ DOMAIN OwnProps(partial) : next.o[k] = prev.o[k]

\* The state before the last applied update of a pass.
PassPrevState == FoldUpdates(SubSeq(PassApplies, 1, Len(PassApplies) - 1), queues[PassQueue].baseState)

C27_Step ==
    ProcessStep /\ PassApplies # <<>> /\ updates[PassApplies[Len(PassApplies)]].tag = UpdateState =>
        LET wip == fibers[WorkInProgressOf(1)]
            next == fibers'[WorkInProgressOf(1)].memoizedState
            partial == PartialStateOf(PassApplies[Len(PassApplies)], PassPrevState, wip.pendingProps)
        IN /\ partial.t \in {"null", "undefined"} => next = PassPrevState
           /\ partial.t \notin {"null", "undefined"} => IsShallowMerge(next, PassPrevState, partial)
           /\ fibers'[current[1]].memoizedState = fibers[current[1]].memoizedState
           /\ \A q \in DOMAIN queues :
                 q # fibers'[WorkInProgressOf(1)].updateQueue => queues'[q].baseState = queues[q].baseState

\* C27: an UpdateState update, its payload a value or a function of the previous
\* state and the props, gives the previous state itself when the partial state is
\* null or undefined, and otherwise a state that has every key of the partial state
\* with the partial state's value and every other key of the previous state with its
\* previous value; the state of the current fiber and the base state of the other
\* queue are as they were.
C27_MergePartialState == [][C27_Step]_vars

\* A pass has merged the partial state {t} into a state that had the key s.
C27_Witness ==
    /\ Processed
    /\ lastOp.applied # <<>>
    /\ LET u == updates[lastOp.applied[Len(lastOp.applied)]]
           next == fibers[LastWorkInProgress].memoizedState
       IN /\ u.tag = UpdateState
          /\ ~IsFunction(u.payload)
          /\ DOMAIN OwnProps(u.payload.v) = {"t"}
          /\ DOMAIN OwnProps(next) = {"s", "t"}
          /\ next.o["s"] = <<"A">>
          /\ next.o["t"] = <<"B">>

IsForceUpdate(u) == updates[u].tag = ForceUpdate
NotForceUpdate(u) == updates[u].tag # ForceUpdate

C28_Step ==
    ProcessStep =>
        /\ hasForceUpdate' = (\E i \in DOMAIN PassApplies : IsForceUpdate(PassApplies[i]))
        /\ fibers'[WorkInProgressOf(1)].memoizedState
              = FoldUpdates(SelectSeq(PassApplies, NotForceUpdate), queues[PassQueue].baseState)

\* C28: a ForceUpdate update leaves the running state as it is, and after a
\* processUpdateQueue call hasForceUpdate is true exactly when that call applied a
\* ForceUpdate update, whatever the flag was before the call.
C28_ForceUpdateFlag == [][C28_Step]_vars

\* A call that applied no ForceUpdate update comes after a call that applied one:
\* the flag is false again.
C28_Witness ==
    /\ Processed
    /\ ~hasForceUpdate
    /\ \E u \in DOMAIN updates :
          /\ IsForceUpdate(u)
          /\ Count(u, PendingOf(LastWorkInProgress)) = 0
          /\ Count(u, lastOp.applied) = 0

IsCaptureUpdate(u) == updates[u].tag = CaptureUpdate

C29_Step ==
    ProcessStep =>
        LET wip == fibers[WorkInProgressOf(1)]
            after == fibers'[WorkInProgressOf(1)]
            last == PassApplies[Len(PassApplies)]
        IN /\ after.effectTag \ {Callback} =
                 IF \E i \in DOMAIN PassApplies : IsCaptureUpdate(PassApplies[i])
                 THEN ((wip.effectTag \ {ShouldCapture}) \cup {DidCapture}) \ {Callback}
                 ELSE wip.effectTag \ {Callback}
           /\ PassApplies # <<>> /\ IsCaptureUpdate(last) =>
                 after.memoizedState = MergePartialState(updates[last], PassPrevState, wip.pendingProps)

\* C29: a processUpdateQueue call that applies a CaptureUpdate update takes
\* ShouldCapture out of the effectTag of the work-in-progress and puts DidCapture in,
\* every other bit staying as it was, and the state the update gives is the one an
\* UpdateState update with the same payload gives; a call that applies no
\* CaptureUpdate update, skipped ones included, changes no bit other than Callback.
C29_CaptureFlipsBits == [][C29_Step]_vars

\* A capture update was applied to a work-in-progress marked ShouldCapture and
\* Placement, on a state that had the key t.
C29_Witness ==
    /\ Processed
    /\ lastOp.applied # <<>>
    /\ IsCaptureUpdate(lastOp.applied[Len(lastOp.applied)])
    /\ fibers[LastWorkInProgress].effectTag = {DidCapture, Placement}
    /\ DOMAIN OwnProps(fibers[LastWorkInProgress].memoizedState) = {"s", "t"}

C30_Step ==
    /\ host'.op = "pushHostContext" /\ host'.error = NoError =>
          LET context == host.contextStackCursor.current
              nextContext == getChildHostContext(context, fibers[host'.fiber].type,
                                                 host.rootInstanceStackCursor.current)
          IN IF nextContext # context
             THEN /\ host'.contextStackCursor.current = nextContext
                  /\ host'.contextStackCursor.saved = Append(host.contextStackCursor.saved, context)
                  /\ host'.contextFiberStackCursor.current = FiberRef(host'.fiber)
                  /\ Depth(host'.contextFiberStackCursor) = Depth(host.contextFiberStackCursor) + 1
                  /\ host'.rootInstanceStackCursor = host.rootInstanceStackCursor
             ELSE Cursors(host') = Cursors(host)
    /\ (/\ host'.op = "popHostContext"
        /\ ~host.entered[Len(host.entered)].pushed) => Cursors(host') = Cursors(host)

\* C30: pushHostContext(fiber) pushes the fiber and the child context, one entry on
\* each of the two stacks, exactly when the child context computed for the fiber is
\* not the context on top; when it is the context on top no stack changes, and the
\* popHostContext(fiber) that completes the fiber changes no stack either.
C30_PushesUniqueContext == [][C30_Step]_vars

\* Inside an svg element that pushed, a second svg element was begun without a push
\* and has been completed: the stacks are those of the first svg element.
C30_Witness ==
    /\ host.op = "popHostContext"
    /\ fibers[host.fiber].type = "svg"
    /\ Len(host.entered) = 2
    /\ host.entered[2].pushed
    /\ fibers[host.entered[2].fiber].type = "svg"
    /\ host.contextFiberStackCursor.current = FiberRef(host.entered[2].fiber)
    /\ host.contextStackCursor.current = SVG_NAMESPACE
    /\ Depth(host.contextStackCursor) = 2

\* The names configured as BOOLEAN that the calls are made with.
BooleanNames == {name \in DomNames \cap DOMAIN properties : properties[name].type = "BOOLEAN"}
SetBefore(values) == dom.op = "setValueForProperty" /\ dom.name \in BooleanNames /\ dom.value \in values
ReadsBack == dom'.op = "getValueForProperty" /\ dom'.name = dom.name

\* Without regard to the kind of element: a read after true gives true, after false
\* or null the attribute is gone and a read gives null or false.
C21_AnyElementStep ==
    /\ SetBefore({DomValues.true}) /\ ReadsBack /\ dom'.value = DomValues.true
          => dom'.result = DomValues.true
    /\ SetBefore({DomValues.false, DomValues.null}) /\ ReadsBack
          => /\ ~hasAttribute(dom.node, properties[dom.name].attributeName)
             /\ dom'.result \in {DomValues.null, DomValues.false}

C21_Step ==
    dom'.isCustomComponentTag = {FALSE} =>
        /\ SetBefore({DomValues.true}) /\ ReadsBack /\ dom'.value = DomValues.true
              => dom'.result = DomValues.true
        /\ SetBefore({DomValues.false, DomValues.null}) /\ ReadsBack
              => IF properties[dom.name].mustUseProperty
                 THEN /\ dom.node.props[dom.name] = DomValues.false
                      /\ dom'.result = DomValues.false
                 ELSE /\ ~hasAttribute(dom.node, properties[dom.name].attributeName)
                      /\ dom'.result = IF dom'.value = DomValues.true
                                       THEN DomValues.null ELSE dom'.value
        /\ (/\ dom'.op = "setValueForProperty"
            /\ dom'.name \in BooleanNames
            /\ dom'.value \in {DomValues.false, DomValues.null})
              => \A a \in DOMAIN dom'.node.attributes :
                    /\ a # properties[dom'.name].attributeName
                    /\ a \in DOMAIN dom.node.attributes
                    /\ dom'.node.attributes[a] = dom.node.attributes[a]

C22_Step ==
    /\ \A name \in DomNames : Count(name, dom'.warnings) <= 1
    /\ \A i \in DOMAIN dom'.warnings : ~VALID_ATTRIBUTE_NAME_REGEX(dom'.warnings[i])
    /\ dom.validatedAttributeNameCache \subseteq dom'.validatedAttributeNameCache
    /\ dom.illegalAttributeNameCache \subseteq dom'.illegalAttributeNameCache
    /\ dom'.op = "isAttributeNameSafe" =>
          LET name == dom'.name
          IN /\ name \in dom.validatedAttributeNameCache => dom'.safe
             /\ name \in dom.illegalAttributeNameCache => ~dom'.safe
             /\ name \in dom'.validatedAttributeNameCache <=> dom'.safe
             /\ name \in dom'.illegalAttributeNameCache <=> ~dom'.safe
             /\ VALID_ATTRIBUTE_NAME_REGEX(name) => dom'.safe /\ dom'.warnings = dom.warnings
             /\ ~VALID_ATTRIBUTE_NAME_REGEX(name) =>
                   /\ ~dom'.safe
                   /\ dom'.warnings = IF name \in Range(dom.warnings)
                                      THEN dom.warnings ELSE Append(dom.warnings, name)

\* C22: whatever calls of isAttributeNameSafe are made, directly or by
\* setValueForProperty, the invalid-name diagnostic is emitted at most once for a
\* name and only for invalid names; a call answers as the first call on its name
\* answered, the answer being kept in one of the two caches; and a call on a valid
\* name returns true and emits nothing.
C22_WarnsOncePerName == [][C22_Step]_vars

\* Two invalid names were diagnosed, one after the other, and the third call is on
\* the first of them again: it returns false and there are still two diagnostics.
C22_Witness ==
    /\ dom.op = "isAttributeNameSafe"
    /\ dom.calls = 3
    /\ Len(dom.warnings) = 2
    /\ dom.name = dom.warnings[1]
    /\ ~dom.safe

\* The depths of the stacks of contexts, of providing fibers and of containers.
Depths(hs) ==
    <<Depth(hs.contextStackCursor), Depth(hs.contextFiberStackCursor), Depth(hs.rootInstanceStackCursor)>>

Less(n) == IF n = 0 THEN 0 ELSE n - 1

C31_Step ==
    /\ host'.op = "pushHostContainer" =>
          Depths(host') = <<Depths(host)[1] + 1, Depths(host)[2] + 1, Depths(host)[3] + 1>>
    /\ host'.op = "popHostContainer" =>
          Depths(host') = <<Less(Depths(host)[1]), Less(Depths(host)[2]), Less(Depths(host)[3])>>
    /\ host'.op = "pushHostContext" =>
          \/ Depths(host') = Depths(host)
          \/ Depths(host') = <<Depths(host)[1] + 1, Depths(host)[2] + 1, Depths(host)[3]>>
    /\ host'.op = "popHostContext" =>
          \/ Depths(host') = Depths(host)
          \/ Depths(host') = <<Less(Depths(host)[1]), Less(Depths(host)[2]), Depths(host)[3]>>
    /\ Depths(host')[1] = Depths(host')[2]

Pushers(entered) == SelectSeq(entered, LAMBDA e : e.pushed)

ContainerPushers(entered) == SelectSeq(entered, LAMBDA e : fibers[e.fiber].tag \in {HostRoot, HostPortal})

Innermost(entries) == entries[Len(entries)]

\* C32: on a depth-first walk below a host root, where every fiber begun is
\* completed after its descendants, getHostContext returns the context set by the
\* nearest fiber on the way that pushed, getRootHostContainer returns the container
\* of the nearest root or portal on the way, and completing a fiber leaves the three
\* stacks exactly as they were before that fiber was begun.
C32_Step ==
    /\ host'.op = "getHostContext" =>
          /\ host'.error = NoError
          /\ host'.result = Innermost(Pushers(host.entered)).context
    /\ host'.op = "getRootHostContainer" =>
          /\ host'.error = NoError
          /\ host'.result = Innermost(ContainerPushers(host.entered)).container
    /\ host'.op \in {"popHostContext", "popHostContainer"} =>
          /\ Cursors(host') = Innermost(host.entered).before
          /\ host'.entered = SubSeq(host.entered, 1, Len(host.entered) - 1)

C32_NearestAncestorAndRestore == [][C32_Step]_vars

\* Below the root an svg element pushed and a second svg element inside it did
\* not: getHostContext inside the second returns the namespace set by the first.
C32_Witness ==
    /\ host.op = "getHostContext"
    /\ host.result = SVG_NAMESPACE
    /\ Len(host.entered) = 3
    /\ host.entered[2].pushed
    /\ ~host.entered[3].pushed
    /\ host.entered[2].context = SVG_NAMESPACE
    /\ host.entered[2].before[1].current = HTML_NAMESPACE

\* ------------------------------------------------------------------ C33
CopiedFields(fiber) ==
    <<fiber.childExpirationTime, fiber.expirationTime, fiber.child, fiber.memoizedProps,
      fiber.memoizedState, fiber.updateQueue, fiber.contextDependencies,
      fiber.sibling, fiber.index, fiber.ref>>

\* C33: whether createWorkInProgress(current, pendingProps, expirationTime) creates
\* the alternate or reuses it, the fiber it returns has the pendingProps of the call
\* and the childExpirationTime, expirationTime, child, memoizedProps, memoizedState,
\* updateQueue (the same queue), contextDependencies, sibling, index and ref of
\* current; its expirationTime is the one of current, not the one of the call.
C33_Step ==
    \A p \in Positions, props \in PropsValues, e \in ExpirationTimes :
        CreateWorkInProgress(p, props, e, FALSE) =>
            LET cur == fibers[current[p]]
                workInProgress == fibers'[fibers'[current[p]].alternate]
            IN /\ workInProgress.pendingProps = props
               /\ CopiedFields(workInProgress) = CopiedFields(cur)
               /\ CopiedFields(fibers'[current[p]]) = CopiedFields(cur)
               /\ workInProgress.expirationTime = cur.expirationTime

C33_CopiesFromCurrent == [][C33_Step]_vars

\* A reused alternate that had other fields than current, after a call at an
\* expiration time that is not the one of current: it has current's queue, child,
\* sibling, index and ref, and current's expiration time.
C33_Witness ==
    /\ lastOp.op = "createWorkInProgress"
    /\ lastOp.reused
    /\ LET cur == fibers[current[lastOp.p]]
           workInProgress == fibers[cur.alternate]
       IN /\ workInProgress.expirationTime = LowExpirationTime
          /\ nextRenderExpirationTime[lastOp.p] = HighExpirationTime
          /\ workInProgress.updateQueue # NULL
          /\ workInProgress.child = 3
          /\ workInProgress.sibling = NULL
          /\ workInProgress.index = 2
          /\ workInProgress.ref = JSUndefined
          /\ workInProgress.pendingProps # workInProgress.memoizedProps

\* ------------------------------------------------------------------ C34
\* The fiber the last call of createFiberFromTypeAndProps returned.
CreatedFiber == fibers[lastOp.p]

HasCreated == lastOp.op = "createFiberFromTypeAndProps" /\ lastOp.error = NoError

\* The original statement: the type of the fiber is the type given, except that
\* it is null for a lazy component.
C34_ResolvedTypeIsGiven ==
    HasCreated =>
        CreatedFiber.type = IF CreatedFiber.tag = WorkTags.LazyComponent THEN NoType
                            ELSE lastOp.arg.name

\* The tag expected for a type that is accepted.
C34_Kind(type) ==
    CASE type.typeof = "function" /\ type.isReactComponent -> ClassComponent
      [] type.typeof = "function" /\ ~type.isReactComponent -> WorkTags.IndeterminateComponent
      [] type.typeof = "string" -> HostComponent
      [] type = ReactSymbols.REACT_FRAGMENT_TYPE -> WorkTags.Fragment
      [] type \in {ReactSymbols.REACT_CONCURRENT_MODE_TYPE, ReactSymbols.REACT_STRICT_MODE_TYPE} -> WorkTags.Mode
      [] type = ReactSymbols.REACT_PROFILER_TYPE -> WorkTags.Profiler
      [] type = ReactSymbols.REACT_SUSPENSE_TYPE -> WorkTags.SuspenseComponent
      [] type.typeof = "object" /\ type.tagged = ReactSymbols.REACT_PROVIDER_TYPE.name -> WorkTags.ContextProvider
      [] type.typeof = "object" /\ type.tagged = ReactSymbols.REACT_CONTEXT_TYPE.name -> WorkTags.ContextConsumer
      [] type.typeof = "object" /\ type.tagged = ReactSymbols.REACT_FORWARD_REF_TYPE.name -> WorkTags.ForwardRef
      [] type.typeof = "object" /\ type.tagged = ReactSymbols.REACT_MEMO_TYPE.name -> WorkTags.MemoComponent
      [] type.typeof = "object" /\ type.tagged = ReactSymbols.REACT_LAZY_TYPE.name -> WorkTags.LazyComponent

\* C34: createFiberFromTypeAndProps takes the tag of the fiber from the type: a
\* function with the class marker gives a class component, a function without it an
\* indeterminate component, a string a host component, the fragment, mode, profiler
\* and suspense markers their own tags, an object tagged provider, context, forward
\* ref, memo or lazy the tag of that kind. The type of the fiber is the type given
\* for a function, a string, the profiler and suspense markers and a tagged object
\* that is not lazy; it is null for a lazy component and for a fragment; for a mode
\* marker it is the concurrent mode marker if the fiber has the concurrent flag
\* (from the marker or from the mode of the call) and the strict mode marker if not.
C34_KindAndType ==
    HasCreated =>
        LET type == lastOp.arg
            fiber == CreatedFiber
        IN /\ fiber.tag = C34_Kind(type)
           /\ fiber.type =
                 CASE fiber.tag \in {WorkTags.LazyComponent, WorkTags.Fragment} -> NoType
                   [] fiber.tag = WorkTags.Mode ->
                         IF TypeOfMode.ConcurrentMode \in fiber.mode
                         THEN ReactSymbols.REACT_CONCURRENT_MODE_TYPE.name
                         ELSE ReactSymbols.REACT_STRICT_MODE_TYPE.name
                   [] OTHER -> type.name
           /\ (type = ReactSymbols.REACT_CONCURRENT_MODE_TYPE => TypeOfMode.ConcurrentMode \in fiber.mode)

\* A lazy component has been created: its tag is LazyComponent and its type is null.
C34_Witness ==
    /\ HasCreated
    /\ lastOp.arg = TaggedObject(ReactSymbols.REACT_LAZY_TYPE.name)
    /\ CreatedFiber.tag = WorkTags.LazyComponent
    /\ CreatedFiber.type = NoType
    /\ Len(fibers) = 3
    /\ fibers[2].tag = ClassComponent
    /\ fibers[2].type = "Class"

\* ------------------------------------------------------------------ C35
Emitted(message) == Count(message, diag.warnings)

\* C35: each of the four warnings (invalid <option> child, selected on <option>,
\* update scheduled from inside an update function, Profiler without id or onRender)
\* is emitted at most once over any sequence of calls, and the call that emits one
\* completes: the Profiler warning is emitted by a call that returns the fiber.
C35_WarnsAtMostOnce ==
    /\ \A message \in {InvalidOptionChild, SelectedSetOnOption, UpdateInsideUpdate, ProfilerProps} :
          Emitted(message) <= 1
    /\ diag.op = "createFiberFromTypeAndProps" => lastOp.error = NoError /\ lastOp.p # NULL

\* ------------------------------------------------------------------ C36
\* A list of a queue is well formed: both ends are null, or the last record is the
\* end of the chain of next links that starts at the first.
WellFormedList(first, last) ==
    IF first = NULL THEN last = NULL
    ELSE LET chain == ChainFrom(updates, first, Len(updates) + 1)
         IN /\ last # NULL
            /\ chain[Len(chain)] = last
            /\ updates[last].next = NULL

\* C36: in every reachable state the normal list and the captured list of every
\* queue that a fiber or its alternate refers to are well formed: firstUpdate is
\* null exactly if lastUpdate is, and else lastUpdate is the last record reachable
\* from firstUpdate, with next null.
C36_QueuesWellFormed ==
    \A q \in LiveQueueIds :
        /\ WellFormedList(queues[q].firstUpdate, queues[q].lastUpdate)
        /\ WellFormedList(queues[q].firstCapturedUpdate, queues[q].lastCapturedUpdate)

\* ------------------------------------------------------------------ C37
\* The chain of nextEffect links from an update, cut off when it is longer than
\* the number of updates.
EffectChain(first) == EffectChainFrom(updates, first, Len(updates) + 1)

AcyclicEffects(first) ==
    /\ Len(EffectChain(first)) <= Len(updates)
    /\ NoDuplicates(EffectChain(first))

\* C37: commitUpdateQueue always returns: after any sequence of enqueueUpdate,
\* enqueueCapturedUpdate and processUpdateQueue calls, two processUpdateQueue calls
\* on the same work-in-progress queue without a commit in between included, the
\* effect list and the captured effect list of every queue are chains of nextEffect
\* links that end, with every update at most once.
C37_CommitTerminates ==
    /\ ~hung
    /\ \A q \in LiveQueueIds :
          /\ AcyclicEffects(queues[q].firstEffect)
          /\ AcyclicEffects(queues[q].firstCapturedEffect)

\* ------------------------------------------------------------------ C38
\* The updates that a committed pass had applied and the pass under way has
\* applied again.
AppliedAgain == consumed \cap passApplied

\* C38: when an update with a callback has been applied by a committed pass and is
\* applied again by a later pass, because it follows an update that the first pass
\* skipped, the commit of the later pass does not invoke its callback again: the
\* callback has been invoked once in total.
C38_Step ==
    (lastOp'.op = "commitUpdateQueue" /\ ~hung' /\ lastOp'.error = NoError) =>
        \A u \in AppliedAgain :
            /\ \A i \in DOMAIN lastOp'.called : lastOp'.called[i] # u
            /\ callCount'[u] = callCount[u]
            /\ created[u].callback = "fn" => callCount'[u] = 1

C38_RebasedCallbackOnce == [][C38_Step]_vars

\* Update 1 at the low and update 2 at the high expiration time, both with a
\* callback: a high pass applied 2 alone and was committed, a low pass applied 1
\* and 2 and has been committed now; this commit invoked the callback of 1 only.
C38_Witness ==
    /\ lastOp.op = "commitUpdateQueue" /\ ~hung
    /\ lastOp.called = <<1>>
    /\ callCount = <<1, 1>>
    /\ updates[1].expirationTime = LowExpirationTime
    /\ updates[2].expirationTime = HighExpirationTime
    /\ consumed = {1, 2}
    /\ TextOf(fibers[current[1]].memoizedState) = <<Letters[1], Letters[2]>>

\* ------------------------------------------------------------------ C39
\* C39: when processUpdateQueue returns, the work-in-progress has the Callback bit
\* in its effectTag if the call applied an update that carried a callback or left a
\* captured update that it skipped, so that a work-in-progress whose queue ends the
\* call with a captured update, an effect or a captured effect is flagged for
\* commitUpdateQueue.
C39_Step ==
    \A p \in Positions :
        (lastOp'.op = "processUpdateQueue" /\ lastOp'.p = p /\ ~hung') =>
            LET workInProgress == fibers'[WorkInProgressOf(p)]
                queue == queues'[workInProgress.updateQueue]
                applied == lastOp'.applied
                flagged == Callback \in workInProgress.effectTag
            IN /\ (\E i \in DOMAIN applied : updates[applied[i]].callback # "null") => flagged
               /\ queue.firstCapturedUpdate # NULL => flagged
               /\ queue.firstEffect # NULL => flagged
               /\ queue.firstCapturedEffect # NULL => flagged

C39_CallbackBit == [][C39_Step]_vars

\* A pass skipped a captured update and applied nothing: its queue has no effects,
\* and the work-in-progress is flagged.
C39_Witness ==
    /\ Processed
    /\ lastOp.applied = <<>>
    /\ LET workInProgress == fibers[LastWorkInProgress]
           queue == queues[workInProgress.updateQueue]
       IN /\ queue.firstCapturedUpdate # NULL
          /\ queue.firstEffect = NULL
          /\ queue.firstCapturedEffect = NULL
          /\ workInProgress.effectTag = {Callback}

Entries(cursor) == IF cursor.saved = <<>> THEN <<>> ELSE Append(Tail(cursor.saved), cursor.current)

\* How many providing fibers on the stack are roots or portals.
ContainerProviders(hs) ==
    LET entries == Entries(hs.contextFiberStackCursor)
    IN Cardinality({i \in DOMAIN entries : fibers[entries[i].ref].tag \in {HostRoot, HostPortal}})

\* The call is one the work loop makes: pushHostContainer for a root or a portal,
\* popHostContext for a host component.
WorkLoopCall(hs) ==
    /\ hs.op = "pushHostContainer" => fibers[hs.fiber].tag \in {HostRoot, HostPortal}
    /\ hs.op = "popHostContext" => fibers[hs.fiber].tag = HostComponent

\* Every container on the stack has its root or portal on the stack of providing
\* fibers, so the stack of containers is not deeper than the stack of contexts.
ContainersProvided(hs) ==
    /\ Depth(hs.rootInstanceStackCursor) <= ContainerProviders(hs)
    /\ Depth(hs.rootInstanceStackCursor) <= Depth(hs.contextStackCursor)

C40_Step ==
    /\ Depth(host'.contextStackCursor) = Depth(host'.contextFiberStackCursor)
    /\ (ContainersProvided(host) /\ WorkLoopCall(host')) => ContainersProvided(host')

====
